---------------------------- MODULE Spec2Model ----------------------------
(***************************************************************************)
(* A model of the matching-and-clustering core of customer-dedupe:         *)
(*   steps/embedding.py      _UnionFind, DefaultEmbeddingMatcher.cluster,  *)
(*                           BruteForceVectorIndex                         *)
(*   steps/deterministic.py  NameFuzzyMatcher.match, _levenshtein          *)
(*   schema.py               RecordSchema.from_mapping, values_for,        *)
(*                           joined_value                                  *)
(*   steps/cleanup.py        FunctionalCleaner.clean                       *)
(*   steps/embedding.py      SimpleTextEmbeddingModel.embed,               *)
(*                           DefaultEmbeddingMatcher.match                 *)
(*   runners/local.py        LocalDedupePipeline.run                       *)
(*   cli.py                  _apply_email_constraint, _canonical_email     *)
(* and of _UnionFind and DefaultEmbeddingMatcher.match as their callers    *)
(* may use them: any sequence of calls, and two calls on one matcher.      *)
(*                                                                         *)
(* Record ids are Python strings; an id is represented by its rank in the  *)
(* lexicographic order of the strings, so < on ids is the string order     *)
(* that sorted() uses.  Scores are floats; they are represented as integer *)
(* hundredths and a mean as the pair (sum, count) it is the quotient of.   *)
(***************************************************************************)
EXTENDS Integers, Sequences, FiniteSets, TLC

(***************************************************************************)
(* Bounds of the model.                                                    *)
(***************************************************************************)
NumIds == 4
MaxCands == 2
MaxStrLen == 2
MaxRecords == 3

Ids == 1..NumIds
\* candidate scores, in hundredths (0.7 is NameFuzzyMatcher's default score)
Scores == {70, 90}

VARIABLES
    candidates,   \* cluster(): the argument, a list of MatchCandidate
    pc,           \* cluster(): position in the body
    pos,          \* cluster(): index of the current loop iteration
    uf,           \* cluster(): the _UnionFind; parent map and its key order
    score_map,    \* cluster(): root -> list of scores
    groups,       \* cluster(): result of uf.groups(), in dict order
    clusters      \* cluster(): the returned list of Cluster


VARIABLES
    lev_left,     \* _levenshtein: three argument strings, used pairwise
    lev_mid,
    lev_right,
    lev_d,        \* the distances returned so far, by pair of arguments
    lev_pc        \* number of _levenshtein calls made

VARIABLES
    records,        \* NameFuzzyMatcher.match: the argument, a list of CustomerRecord
    max_edits,      \* NameFuzzyMatcher._max_edits
    fz_i,           \* match: index of the outer loop
    fz_candidates,  \* match: the list being built and returned
    fz_pc           \* match: position in the body

VARIABLES
    arg_ids,        \* the record_ids handed to build
    arg_vectors,    \* the vectors handed to build
    index,          \* BruteForceVectorIndex: _record_ids and _vectors
    min_similarity, \* the threshold handed to query_similar_pairs
    pairs,          \* what query_similar_pairs returned, or the error it raised
    ix_pc           \* position of the index's caller

VARIABLES
    earlier,        \* the caller's previous query of the same index: threshold and result
    builds,         \* number of build calls made on the index
    earlier_ids     \* the record ids handed to the builds before the last one

VARIABLES
    mapping,        \* RecordSchema.from_mapping: the argument, tag -> list of columns
    schema,         \* what from_mapping returned
    sc_pc           \* position of from_mapping's caller

VARIABLES
    cl_records,     \* FunctionalCleaner.clean: the argument, a list of CustomerRecord
    cl_config,      \* the cleaner's _transforms, _tag_transforms and _schema
    cl_out,         \* clean: the list `cleaned` being built and returned
    cl_pc           \* clean: position in the body

VARIABLES
    pl_records,     \* LocalDedupePipeline.run: the argument, a list of CustomerRecord
    pl_config,      \* how the pipeline's cleaner and matchers were constructed
    pl_hash,        \* what hash(token) % dimensions is in this process, by token
    pl_cleaned,     \* run: cleaned
    pl_det,         \* run: deterministic_candidates
    pl_emb,         \* run: embedding_candidates
    pl_index,       \* the embedding matcher's _vector_index
    pl_all,         \* run: all_candidates
    pl_clusters,    \* run: the returned list of Cluster
    pl_pc           \* run: position in the body

VARIABLES
    em_records,       \* _apply_email_constraint: the argument records
    em_candidates,    \* _apply_email_constraint: the argument candidates
    em_constraint,    \* _apply_email_constraint: the argument constraint
    em_emails_by_id,  \* the dict emails_by_id
    em_filtered,      \* the returned list
    em_pc             \* position in the body

VARIABLES
    dsu,            \* a _UnionFind: its _parent and the order of its keys
    dsu_before,     \* the same _UnionFind as it was when the last call was made
    dsu_call,       \* the last call made on it: the method and its arguments
    dsu_result,     \* how the last call ended, and what it returned if a find
    dsu_calls       \* number of calls made so far

VARIABLES
    mt_batch,       \* match: the argument records of each caller
    mt_hash,        \* what hash(token) % dimensions is in this process, by token
    mt_index,       \* the matcher's _vector_index, one for all callers
    mt_vectors,     \* match: the local vectors of each caller
    mt_ids,         \* match: the local ids of each caller
    mt_result,      \* what match returned to each caller
    mt_pc           \* position of each caller in match

clusterVars == <<candidates, pc, pos, uf, score_map, groups, clusters>>
levVars == <<lev_left, lev_mid, lev_right, lev_d, lev_pc>>
fuzzyVars == <<records, max_edits, fz_i, fz_candidates, fz_pc>>
indexVars == <<arg_ids, arg_vectors, index, min_similarity, pairs, ix_pc>>
sessionVars == <<earlier, builds, earlier_ids>>
schemaVars == <<mapping, schema, sc_pc>>
cleanVars == <<cl_records, cl_config, cl_out, cl_pc>>
emailVars == <<em_records, em_candidates, em_constraint, em_emails_by_id, em_filtered,
               em_pc>>
pipeVars == <<pl_records, pl_config, pl_hash, pl_cleaned, pl_det, pl_emb, pl_index,
              pl_all, pl_clusters, pl_pc>>
dsuVars == <<dsu, dsu_before, dsu_call, dsu_result, dsu_calls>>
matchVars == <<mt_batch, mt_hash, mt_index, mt_vectors, mt_ids, mt_result, mt_pc>>
lastVars == <<dsuVars, matchVars>>
laterVars == <<schemaVars, cleanVars, pipeVars, emailVars, lastVars>>
vars == <<clusterVars, levVars, fuzzyVars, indexVars, sessionVars, laterVars>>
otherThanCluster == <<levVars, fuzzyVars, indexVars, sessionVars, laterVars>>
otherThanLev == <<clusterVars, fuzzyVars, indexVars, sessionVars, laterVars>>
otherThanFuzzy == <<clusterVars, levVars, indexVars, sessionVars, laterVars>>
otherThanIndex == <<clusterVars, levVars, fuzzyVars, laterVars>>
coreVars == <<clusterVars, levVars, fuzzyVars, indexVars, sessionVars>>
otherThanSchema == <<coreVars, cleanVars, pipeVars, emailVars, lastVars>>
otherThanClean == <<coreVars, schemaVars, pipeVars, emailVars, lastVars>>
otherThanPipe == <<coreVars, schemaVars, cleanVars, emailVars, lastVars>>
otherThanEmail == <<coreVars, schemaVars, cleanVars, pipeVars, lastVars>>
earlierVars == <<coreVars, schemaVars, cleanVars, pipeVars, emailVars>>
otherThanDsu == <<earlierVars, matchVars>>
otherThanMatch == <<earlierVars, dsuVars>>

(***************************************************************************)
(* Small helpers on sequences and functions (Python list / dict).          *)
(***************************************************************************)
Range(s) == {s[k] : k \in DOMAIN s}

SeqsUpTo(S, n) == UNION {[1..k -> S] : k \in 0..n}

\* dict d with d[k] = v set (key added when absent)
DictPut(d, k, v) == [x \in (DOMAIN d) \cup {k} |-> IF x = k THEN v ELSE d[x]]

EmptyDict == [x \in {} |-> 0]

Min2(a, b) == IF a <= b THEN a ELSE b

RECURSIVE SumSeq(_)
SumSeq(s) == IF s = <<>> THEN 0 ELSE s[1] + SumSeq(Tail(s))

MatchCandidate(l, r, s, m) == [left_id |-> l, right_id |-> r, score |-> s, metadata |-> m]

(***************************************************************************)
(* _UnionFind: parent is the dict _parent, keys its insertion order.       *)
(***************************************************************************)
EmptyUF == [parent |-> EmptyDict, keys |-> <<>>]

\* a find that returns the parent of the item without walking up to the root
FindOneHop(u, item) ==
    IF item \notin DOMAIN u.parent
    THEN [uf |-> [parent |-> DictPut(u.parent, item, item),
                  keys |-> Append(u.keys, item)],
          root |-> item]
    ELSE [uf |-> u, root |-> u.parent[item]]

RECURSIVE Find(_, _)
Find(u, item) ==
    IF item \notin DOMAIN u.parent
    THEN [uf |-> [parent |-> DictPut(u.parent, item, item),
                  keys |-> Append(u.keys, item)],
          root |-> item]
    ELSE IF u.parent[item] # item
         THEN LET r == Find(u, u.parent[item])
              IN  [uf |-> [r.uf EXCEPT !.parent[item] = r.root], root |-> r.root]
         ELSE [uf |-> u, root |-> item]

\* a union that hangs the right item, not its root, under the left root
UnionNoRightRoot(u, left, right) ==
    LET fl == Find(u, left)
        fr == Find(fl.uf, right)
    IN  IF fl.root # fr.root
        THEN [fr.uf EXCEPT !.parent[right] = fl.root]
        ELSE fr.uf

Union(u, left, right) ==
    LET fl == Find(u, left)
        fr == Find(fl.uf, right)
    IN  IF fl.root # fr.root
        THEN [fr.uf EXCEPT !.parent[fr.root] = fl.root]
        ELSE fr.uf

\* groups(): one pass over list(self._parent); grouped is a defaultdict(list),
\* kept as a list of (root, members) in the order the roots were first met.
GroupAdd(g, root, item) ==
    IF \E k \in DOMAIN g : g[k].root = root
    THEN [k \in DOMAIN g |->
            IF g[k].root = root
            THEN [g[k] EXCEPT !.members = Append(@, item)]
            ELSE g[k]]
    ELSE Append(g, [root |-> root, members |-> <<item>>])

RECURSIVE GroupsFrom(_, _, _)
GroupsFrom(u, items, g) ==
    IF items = <<>>
    THEN [uf |-> u, grouped |-> g]
    ELSE LET f == Find(u, Head(items))
         IN  GroupsFrom(f.uf, Tail(items), GroupAdd(g, f.root, Head(items)))

Groups(u) == GroupsFrom(u, u.keys, <<>>)


(***************************************************************************)
(* DefaultEmbeddingMatcher.cluster                                         *)
(***************************************************************************)
\* a score_map that keeps only the last score filed under a root
ScoreAddOverwrite(sm, root, score) == DictPut(sm, root, <<score>>)

\* score_map[root].append(score) on a defaultdict(list)
ScoreAdd(sm, root, score) ==
    DictPut(sm, root, IF root \in DOMAIN sm THEN Append(sm[root], score) ELSE <<score>>)

\* a second loop that files the score under left_id itself, not under its root
ScoreOneNoFind(u, sm, c) ==
    [uf |-> Find(u, c.left_id).uf, score_map |-> ScoreAdd(sm, c.left_id, c.score)]

\* one iteration of the second loop: root = uf.find(left_id); append the score
ScoreOne(u, sm, c) ==
    LET f == Find(u, c.left_id)
    IN  [uf |-> f.uf, score_map |-> ScoreAdd(sm, f.root, c.score)]

\* f"cluster_{root}"
ClusterId(root) == <<"cluster_", root>>

\* sum(scores) / len(scores), kept as the pair it is the quotient of
Mean(scores) == [sum |-> SumSeq(scores), n |-> Len(scores)]

SortedIds(members) == SortSeq(members, LAMBDA a, b : a < b)

\* a cluster whose member list names the root once more, in front of the members
MakeClusterRootTwice(g, sm) ==
    [cluster_id |-> ClusterId(g.root),
     record_ids |-> SortedIds(<<g.root>> \o g.members),
     confidence |-> Mean(IF g.root \in DOMAIN sm THEN sm[g.root] ELSE <<0>>)]

MakeCluster(g, sm) ==
    [cluster_id |-> ClusterId(g.root),
     record_ids |-> SortedIds(g.members),
     confidence |-> Mean(IF g.root \in DOMAIN sm THEN sm[g.root] ELSE <<0>>)]

\* a loop over groups.items() that skips no group
RECURSIVE EmitClustersKeepAll(_, _)
EmitClustersKeepAll(g, sm) ==
    IF g = <<>>
    THEN <<>>
    ELSE <<MakeCluster(Head(g), sm)>> \o EmitClustersKeepAll(Tail(g), sm)

\* the loop over groups.items(): groups of fewer than 2 members are skipped
RECURSIVE EmitClusters(_, _)
EmitClusters(g, sm) ==
    IF g = <<>>
    THEN <<>>
    ELSE IF Len(Head(g).members) < 2
         THEN EmitClusters(Tail(g), sm)
         ELSE <<MakeCluster(Head(g), sm)>> \o EmitClusters(Tail(g), sm)

\* the clusters in the order they were emitted
SortedClustersAsEmitted(cs) == cs

\* sorted(clusters, key=lambda c: c.cluster_id)
SortedClusters(cs) == SortSeq(cs, LAMBDA a, b : a.cluster_id[2] < b.cluster_id[2])

RECURSIVE UnionAll(_, _)
UnionAll(u, cands) ==
    IF cands = <<>>
    THEN u
    ELSE UnionAll(Union(u, Head(cands).left_id, Head(cands).right_id), Tail(cands))

RECURSIVE ScoreAll(_, _, _)
ScoreAll(u, sm, cands) ==
    IF cands = <<>>
    THEN [uf |-> u, score_map |-> sm]
    ELSE LET s == ScoreOne(u, sm, Head(cands))
         IN  ScoreAll(s.uf, s.score_map, Tail(cands))

\* cluster() as a function of its argument: the steps below, composed
ClusterOf(cands) ==
    IF cands = <<>>
    THEN <<>>
    ELSE LET s == ScoreAll(UnionAll(EmptyUF, cands), EmptyDict, cands)
         IN  SortedClusters(EmitClusters(Groups(s.uf).grouped, s.score_map))

CandidateInputs ==
    {MatchCandidate(l, r, s, "any") : l \in Ids, r \in Ids, s \in Scores}

ClusterInit ==
    /\ candidates \in SeqsUpTo(CandidateInputs, MaxCands)
    /\ pc = "start"
    /\ pos = 0
    /\ uf = EmptyUF
    /\ score_map = EmptyDict
    /\ groups = <<>>
    /\ clusters = <<>>

\* lines 122-126: the early return on an empty list, else the fresh structures
ClusterEnter ==
    /\ pc = "start"
    /\ IF candidates = <<>>
       THEN pc' = "done" /\ pos' = 0
       ELSE pc' = "union" /\ pos' = 1
    /\ UNCHANGED <<candidates, uf, score_map, groups, clusters>>
    /\ UNCHANGED otherThanCluster

\* lines 128-129: one iteration of the union loop
ClusterUnionStep ==
    /\ pc = "union"
    /\ uf' = Union(uf, candidates[pos].left_id, candidates[pos].right_id)
    /\ IF pos < Len(candidates)
       THEN pc' = "union" /\ pos' = pos + 1
       ELSE pc' = "score" /\ pos' = 1
    /\ UNCHANGED <<candidates, score_map, groups, clusters>>
    /\ UNCHANGED otherThanCluster

\* lines 131-133: one iteration of the score loop
ClusterScoreStep ==
    /\ pc = "score"
    /\ LET s == ScoreOne(uf, score_map, candidates[pos])
       IN  uf' = s.uf /\ score_map' = s.score_map
    /\ IF pos < Len(candidates)
       THEN pc' = "score" /\ pos' = pos + 1
       ELSE pc' = "groups" /\ pos' = 0
    /\ UNCHANGED <<candidates, groups, clusters>>
    /\ UNCHANGED otherThanCluster

\* line 135
ClusterGroupsStep ==
    /\ pc = "groups"
    /\ LET g == Groups(uf)
       IN  uf' = g.uf /\ groups' = g.grouped
    /\ pc' = "emit"
    /\ UNCHANGED <<candidates, pos, score_map, clusters>>
    /\ UNCHANGED otherThanCluster

\* lines 136-148: build the clusters and return them sorted
ClusterEmitStep ==
    /\ pc = "emit"
    /\ clusters' = SortedClusters(EmitClusters(groups, score_map))
    /\ pc' = "done"
    /\ UNCHANGED <<candidates, pos, uf, score_map, groups>>
    /\ UNCHANGED otherThanCluster



(***************************************************************************)
(* Strings are sequences of one-character strings.  An attribute value is  *)
(* None or a string: <<>> is None and <<s>> the string s.                  *)
(***************************************************************************)
None == <<>>
Some(s) == <<s>>

IsSpace(ch) == ch = " "

\* str.lower(), character by character
UpperCase == <<"A", "B", "C", "D", "E", "F", "G", "H", "I", "J", "K", "L", "M",
              "N", "O", "P", "Q", "R", "S", "T", "U", "V", "W", "X", "Y", "Z">>
LowerCase == <<"a", "b", "c", "d", "e", "f", "g", "h", "i", "j", "k", "l", "m",
              "n", "o", "p", "q", "r", "s", "t", "u", "v", "w", "x", "y", "z">>
LowerTable ==
    [c \in Range(UpperCase) |-> LowerCase[CHOOSE k \in DOMAIN UpperCase : UpperCase[k] = c]]
LowerChar(ch) == IF ch \in DOMAIN LowerTable THEN LowerTable[ch] ELSE ch
Lower(s) == [k \in DOMAIN s |-> LowerChar(s[k])]

\* str.strip(): leading and trailing whitespace removed
RECURSIVE LStrip(_)
LStrip(s) == IF s # <<>> /\ IsSpace(Head(s)) THEN LStrip(Tail(s)) ELSE s
RECURSIVE RStrip(_)
RStrip(s) ==
    IF s # <<>> /\ IsSpace(s[Len(s)]) THEN RStrip(SubSeq(s, 1, Len(s) - 1)) ELSE s
Strip(s) == RStrip(LStrip(s))

\* sep.join(values)
RECURSIVE Join(_, _)
Join(values, sep) ==
    IF values = <<>> THEN <<>>
    ELSE IF Len(values) = 1 THEN Head(values)
    ELSE Head(values) \o sep \o Join(Tail(values), sep)

(***************************************************************************)
(* RecordSchema, with the mapping the repository's pipeline test builds.   *)
(***************************************************************************)
TagToColumns ==
    [NAME |-> <<"FIRSTNAME", "LASTNAME">>,
     ADDRESS |-> <<"BILLING_ADDRESS_LINE1">>,
     EMAIL |-> <<"EMAIL">>]

\* tag_to_columns.get(tag, ())
ColumnsFor(tag) == IF tag \in DOMAIN TagToColumns THEN TagToColumns[tag] ELSE <<>>

\* attributes.get(column)
AttrGet(attributes, column) ==
    IF column \in DOMAIN attributes THEN attributes[column] ELSE None

RECURSIVE ValuesOver(_, _)
ValuesOver(attributes, columns) ==
    IF columns = <<>>
    THEN <<>>
    ELSE LET value == AttrGet(attributes, Head(columns))
             rest == ValuesOver(attributes, Tail(columns))
         IN  IF value = None
             THEN rest
             ELSE IF Strip(value[1]) # <<>> THEN <<Strip(value[1])>> \o rest ELSE rest

ValuesFor(attributes, tag) == ValuesOver(attributes, ColumnsFor(tag))

\* joined_value with the default separator
JoinedValue(attributes, tag) == Strip(Join(ValuesFor(attributes, tag), <<" ">>))

(***************************************************************************)
(* _levenshtein: the two-row dynamic programme.  Python's prev[j] is       *)
(* prev[j + 1] here, sequences being indexed from 1.                       *)
(***************************************************************************)
\* an inner loop whose minimum leaves out prev[j] + 1
RECURSIVE LevRowNoDeletion(_, _, _, _, _)
LevRowNoDeletion(curr, prev, c1, right, j) ==
    IF j > Len(right)
    THEN curr
    ELSE LET cost == IF c1 = right[j] THEN 0 ELSE 1
             v == Min2(curr[j] + 1, prev[j] + cost)
         IN  LevRowNoDeletion(Append(curr, v), prev, c1, right, j + 1)

\* the inner loop: curr extended by one cell per character of right
RECURSIVE LevRow(_, _, _, _, _)
LevRow(curr, prev, c1, right, j) ==
    IF j > Len(right)
    THEN curr
    ELSE LET cost == IF c1 = right[j] THEN 0 ELSE 1
             v == Min2(curr[j] + 1, Min2(prev[j + 1] + 1, prev[j] + cost))
         IN  LevRow(Append(curr, v), prev, c1, right, j + 1)

\* the outer loop: one row per character of left
RECURSIVE LevRows(_, _, _, _)
LevRows(prev, left, right, i) ==
    IF i > Len(left)
    THEN prev
    ELSE LET curr == LevRow(<<i>>, prev, left[i], right, 1)
         IN  \* prev = curr; the test has the row computed before the next is begun
             IF Len(curr) = Len(prev) THEN LevRows(curr, left, right, i + 1) ELSE curr

Levenshtein(left, right) ==
    IF left = right THEN 0
    ELSE IF left = <<>> THEN Len(right)
    ELSE IF right = <<>> THEN Len(left)
    ELSE LET last == LevRows([k \in 1..(Len(right) + 1) |-> k - 1], left, right, 1)
         IN  last[Len(last)]

LevChars == {"a", "b"}
LevStrings == SeqsUpTo(LevChars, MaxStrLen)

\* the calls made, in order: (left, mid), (mid, left), (left, left),
\* (mid, right), (left, right)
LevCalls == <<"lm", "ml", "ll", "mr", "lr">>

LevArgs(call) ==
    CASE call = "lm" -> <<lev_left, lev_mid>>
      [] call = "ml" -> <<lev_mid, lev_left>>
      [] call = "ll" -> <<lev_left, lev_left>>
      [] call = "mr" -> <<lev_mid, lev_right>>
      [] call = "lr" -> <<lev_left, lev_right>>

LevInit ==
    /\ lev_left \in LevStrings
    /\ lev_mid \in LevStrings
    /\ lev_right \in LevStrings
    /\ lev_d = EmptyDict
    /\ lev_pc = 0

LevIdle ==
    /\ lev_left = <<>> /\ lev_mid = <<>> /\ lev_right = <<>>
    /\ lev_d = EmptyDict
    /\ lev_pc = 0

\* one call of _levenshtein
LevCall ==
    /\ lev_pc < Len(LevCalls)
    /\ LET call == LevCalls[lev_pc + 1]
           args == LevArgs(call)
       IN  lev_d' = DictPut(lev_d, call, Levenshtein(args[1], args[2]))
    /\ lev_pc' = lev_pc + 1
    /\ UNCHANGED <<lev_left, lev_mid, lev_right>>
    /\ UNCHANGED otherThanLev

(***************************************************************************)
(* NameFuzzyMatcher.match                                                  *)
(***************************************************************************)
name_tag == "NAME"
fuzzy_score == 70

CustomerRecord(id, attrs) == [record_id |-> id, attributes |-> attrs]

\* a name taken as it is stored, without .lower()
NameOfNoLower(record) == JoinedValue(record.attributes, name_tag)

\* self._schema.joined_value(record.attributes, self._name_tag).lower()
NameOf(record) == Lower(JoinedValue(record.attributes, name_tag))

\* an inner loop over all the records
InnerStartAll(i) == 1

\* records[i + 1 :], as the index of its first element
InnerStart(i) == i + 1

\* the inner loop from position j on, for a left record with a non-empty name
RECURSIVE FuzzyInner(_, _, _, _, _)
FuzzyInner(recs, i, j, edits, out) ==
    IF j > Len(recs)
    THEN out
    ELSE LET left_name == NameOf(recs[i])
             right_name == NameOf(recs[j])
         IN  IF right_name = <<>>
             THEN FuzzyInner(recs, i, j + 1, edits, out)
             ELSE IF Levenshtein(left_name, right_name) <= edits
                  THEN FuzzyInner(recs, i, j + 1, edits,
                           Append(out, MatchCandidate(recs[i].record_id,
                                                      recs[j].record_id,
                                                      fuzzy_score,
                                                      [rule |-> "name_levenshtein",
                                                       tag |-> name_tag])))
                  ELSE FuzzyInner(recs, i, j + 1, edits, out)

\* one iteration of the outer loop
FuzzyOuter(recs, i, edits, out) ==
    IF NameOf(recs[i]) = <<>>
    THEN out
    ELSE FuzzyInner(recs, i, InnerStart(i), edits, out)

\* the attribute maps records are drawn from; the joined names are
\* "" (None and a blank), "a b", "a", "ab"
AttributePool ==
    {[FIRSTNAME |-> None, LASTNAME |-> Some(<<" ">>)],
     [FIRSTNAME |-> Some(<<"A">>), LASTNAME |-> Some(<<"b">>)],
     [FIRSTNAME |-> Some(<<"a">>)],
     [FIRSTNAME |-> Some(<<" ", "a", "b">>), LASTNAME |-> None]}

RecordIds == 1..MaxRecords
RecordInputs == {CustomerRecord(id, attrs) : id \in RecordIds, attrs \in AttributePool}
EditBudgets == {0, 1}

FuzzyInit ==
    /\ records \in SeqsUpTo(RecordInputs, MaxRecords)
    /\ max_edits \in EditBudgets
    /\ fz_i = 0
    /\ fz_candidates = <<>>
    /\ fz_pc = "start"

FuzzyIdle ==
    /\ records = <<>>
    /\ max_edits = 0
    /\ fz_i = 0
    /\ fz_candidates = <<>>
    /\ fz_pc = "idle"

\* line 25, and the loop header on an empty batch
FuzzyEnter ==
    /\ fz_pc = "start"
    /\ fz_candidates' = <<>>
    /\ IF records = <<>>
       THEN fz_pc' = "done" /\ fz_i' = 0
       ELSE fz_pc' = "loop" /\ fz_i' = 1
    /\ UNCHANGED <<records, max_edits>>
    /\ UNCHANGED otherThanFuzzy

\* lines 26-42: one iteration of the outer loop; line 43 after the last
FuzzyOuterStep ==
    /\ fz_pc = "loop"
    /\ fz_candidates' = FuzzyOuter(records, fz_i, max_edits, fz_candidates)
    /\ IF fz_i < Len(records)
       THEN fz_pc' = "loop" /\ fz_i' = fz_i + 1
       ELSE fz_pc' = "done" /\ fz_i' = fz_i
    /\ UNCHANGED <<records, max_edits>>
    /\ UNCHANGED otherThanFuzzy

(***************************************************************************)
(* BruteForceVectorIndex, driven as DefaultEmbeddingMatcher.match drives   *)
(* it: one build, then a query.  Vector components are floats; the model   *)
(* uses integers, 1 standing for 1.0.                                      *)
(***************************************************************************)
RECURSIVE Dot(_, _)
\* sum(a * b for a, b in zip(left, right)): zip stops at the shorter vector
Dot(left, right) ==
    IF left = <<>> \/ right = <<>>
    THEN 0
    ELSE Head(left) * Head(right) + Dot(Tail(left), Tail(right))

\* __init__
NewIndex == [record_ids |-> <<>>, vectors |-> <<>>]

\* build: both fields replaced by copies of the arguments
\* a build that adds to what the index holds
BuildAdditive(ix, ids, vecs) ==
    [record_ids |-> ix.record_ids \o ids, vectors |-> ix.vectors \o vecs]

Build(ix, ids, vecs) == [record_ids |-> ids, vectors |-> vecs]

\* the pairs (i, j), i < j, of positions of the vectors, in the loops' order
RECURSIVE PairsFrom(_, _, _)
PairsFrom(i, j, n) ==
    IF i > n THEN <<>>
    ELSE IF j > n THEN PairsFrom(i + 1, i + 2, n)
    ELSE <<<<i, j>>>> \o PairsFrom(i, j + 1, n)

\* a query that keeps the pairs whose score is above the threshold only
RECURSIVE QueryFromStrict(_, _, _, _)
QueryFromStrict(ix, todo, t, out) ==
    IF todo = <<>>
    THEN [status |-> "ok", pairs |-> out]
    ELSE LET i == Head(todo)[1]
             j == Head(todo)[2]
             score == Dot(ix.vectors[i], ix.vectors[j])
         IN  IF score > t
             THEN IF i > Len(ix.record_ids) \/ j > Len(ix.record_ids)
                  THEN [status |-> "IndexError", pairs |-> <<>>]
                  ELSE QueryFromStrict(ix, Tail(todo), t,
                           Append(out, MatchCandidate(ix.record_ids[i], ix.record_ids[j],
                                                      score, [source |-> "embedding"])))
             ELSE QueryFromStrict(ix, Tail(todo), t, out)

\* the two loops of query_similar_pairs over the pairs still to visit; reading
\* _record_ids past its end raises IndexError and nothing is returned
RECURSIVE QueryFrom(_, _, _, _)
QueryFrom(ix, todo, t, out) ==
    IF todo = <<>>
    THEN [status |-> "ok", pairs |-> out]
    ELSE LET i == Head(todo)[1]
             j == Head(todo)[2]
             score == Dot(ix.vectors[i], ix.vectors[j])
         IN  IF score >= t
             THEN IF i > Len(ix.record_ids) \/ j > Len(ix.record_ids)
                  THEN [status |-> "IndexError", pairs |-> <<>>]
                  ELSE QueryFrom(ix, Tail(todo), t,
                           Append(out, MatchCandidate(ix.record_ids[i], ix.record_ids[j],
                                                      score, [source |-> "embedding"])))
             ELSE QueryFrom(ix, Tail(todo), t, out)

QuerySimilarPairs(ix, t) == QueryFrom(ix, PairsFrom(1, 2, Len(ix.vectors)), t, <<>>)

VectorPool == {<<1, 0>>, <<0, 1>>, <<-1, 0>>, <<1, 1>>, <<1>>}
Thresholds == {0, 1, 2}
\* lists of record ids without repetition
IdLists == {s \in SeqsUpTo(RecordIds, MaxRecords) : Cardinality(Range(s)) = Len(s)}

\* no query made yet
NoQuery == [min_similarity |-> 0, result |-> [status |-> "none", pairs |-> <<>>]]

SessionStart ==
    /\ earlier = NoQuery
    /\ builds = 0
    /\ earlier_ids = {}

IndexInit ==
    /\ arg_ids \in IdLists
    /\ arg_vectors \in SeqsUpTo(VectorPool, MaxRecords)
    /\ min_similarity \in Thresholds
    /\ index = NewIndex
    /\ pairs = [status |-> "none", pairs |-> <<>>]
    /\ ix_pc = "build"
    /\ SessionStart

IndexIdle ==
    /\ arg_ids = <<>>
    /\ arg_vectors = <<>>
    /\ min_similarity = 0
    /\ index = NewIndex
    /\ pairs = [status |-> "none", pairs |-> <<>>]
    /\ ix_pc = "idle"
    /\ SessionStart

\* self._vector_index.build(ids, vectors)
IndexBuild ==
    /\ ix_pc = "build"
    /\ index' = Build(index, arg_ids, arg_vectors)
    /\ ix_pc' = "query"
    /\ UNCHANGED <<arg_ids, arg_vectors, min_similarity, pairs>>
    /\ UNCHANGED sessionVars
    /\ UNCHANGED otherThanIndex

\* self._vector_index.query_similar_pairs(threshold)
IndexQuery ==
    /\ ix_pc = "query"
    /\ pairs' = QuerySimilarPairs(index, min_similarity)
    /\ ix_pc' = "done"
    /\ UNCHANGED <<arg_ids, arg_vectors, min_similarity, index>>
    /\ UNCHANGED sessionVars
    /\ UNCHANGED otherThanIndex

\* a second query_similar_pairs(threshold) on the index as built, the caller
\* keeping what the first one gave
IndexRequery ==
    /\ ix_pc = "done"
    /\ \E t \in Thresholds :
          /\ earlier' = [min_similarity |-> min_similarity, result |-> pairs]
          /\ min_similarity' = t
          /\ pairs' = QuerySimilarPairs(index, t)
    /\ ix_pc' = "requeried"
    /\ UNCHANGED <<arg_ids, arg_vectors, index, builds, earlier_ids>>
    /\ UNCHANGED otherThanIndex

(***************************************************************************)
(* One index used for several build calls, as DefaultEmbeddingMatcher does *)
(* with its _vector_index: every match call is a build followed by a query.*)
(***************************************************************************)
MaxBuilds == 2

SessionIdLists == {<<1, 2>>, <<3, 4>>, <<4, 2, 1>>}
SessionVectorLists ==
    { <<<<1, 0>>, <<1, 0>>>>,
      <<<<1, 0>>, <<0, 1>>>>,
      <<<<1, 1>>, <<1, 0>>, <<1, 1>>>> }
Batches == [record_ids : SessionIdLists, vectors : SessionVectorLists]

SessionInit ==
    /\ arg_ids = <<>>
    /\ arg_vectors = <<>>
    /\ min_similarity = 0
    /\ index = NewIndex
    /\ pairs = [status |-> "none", pairs |-> <<>>]
    /\ ix_pc = "session"
    /\ SessionStart

\* index.build(record_ids, vectors), whatever the index held before
SessionBuild ==
    /\ ix_pc \in {"session", "built", "queried"}
    /\ builds < MaxBuilds
    /\ \E b \in Batches :
          /\ index' = Build(index, b.record_ids, b.vectors)
          /\ arg_ids' = b.record_ids
          /\ arg_vectors' = b.vectors
    /\ earlier_ids' = earlier_ids \cup Range(arg_ids)
    /\ builds' = builds + 1
    /\ pairs' = [status |-> "none", pairs |-> <<>>]
    /\ ix_pc' = "built"
    /\ UNCHANGED <<min_similarity, earlier>>
    /\ UNCHANGED otherThanIndex

\* index.query_similar_pairs(threshold) on whatever the last build left
SessionQuery ==
    /\ ix_pc \in {"built", "queried"}
    /\ \E t \in Thresholds :
          /\ min_similarity' = t
          /\ pairs' = QuerySimilarPairs(index, t)
    /\ ix_pc' = "queried"
    /\ UNCHANGED <<arg_ids, arg_vectors, index>>
    /\ UNCHANGED sessionVars
    /\ UNCHANGED otherThanIndex

(***************************************************************************)
(* RecordSchema.from_mapping                                               *)
(***************************************************************************)
MaxColumns == 2

SchemaTags == {"NAME", "EMAIL"}
\* column names; the empty string is one a caller can pass
ColumnNames == {"", "FIRSTNAME", "EMAIL"}
Mappings ==
    UNION {[D -> SeqsUpTo(ColumnNames, MaxColumns)] : D \in SUBSET SchemaTags}

NoSchema == [status |-> "none", tag_to_columns |-> [t \in {} |-> <<>>]]

\* frozen = {tag: tuple(columns) for tag, columns in mapping.items()}
\* return cls(tag_to_columns=frozen)
FromMapping(m) ==
    [status |-> "ok", tag_to_columns |-> [tag \in DOMAIN m |-> m[tag]]]

SchemaInit ==
    /\ mapping \in Mappings
    /\ schema = NoSchema
    /\ sc_pc = "call"

SchemaIdle ==
    /\ mapping = [t \in {} |-> <<>>]
    /\ schema = NoSchema
    /\ sc_pc = "idle"

SchemaFromMapping ==
    /\ sc_pc = "call"
    /\ schema' = FromMapping(mapping)
    /\ sc_pc' = "done"
    /\ UNCHANGED mapping
    /\ UNCHANGED otherThanSchema

(***************************************************************************)
(* FunctionalCleaner.  A dict of transforms is the sequence of its items;  *)
(* a transform is named by what it does to a value.                        *)
(***************************************************************************)
MaxBatch == 2

\* transforms of a raw column, Callable[[object], object]
\*   "lower"  lambda v: v.lower() if v is not None else None
\*   "drop"   lambda v: None
\*   "fill"   lambda v: "x"
ColumnTransforms == {"lower", "drop", "fill"}
ApplyColumnTransform(fn, value) ==
    CASE fn = "lower" -> IF value = None THEN None ELSE Some(Lower(value[1]))
      [] fn = "drop" -> None
      [] fn = "fill" -> Some(<<"x">>)

\* transforms of a tagged column, Callable[[str], str]: str.lower, str.strip
TagTransforms == {"lower", "strip"}
ApplyTagTransform(fn, text) ==
    CASE fn = "lower" -> Lower(text)
      [] fn = "strip" -> Strip(text)

\* str(value)
Str(value) == IF value = None THEN <<"N", "o", "n", "e">> ELSE value[1]

\* for field, transform in self._transforms.items(): if field in attrs: ...
RECURSIVE ApplyColumns(_, _)
ApplyColumns(items, attrs) ==
    IF items = <<>>
    THEN attrs
    ELSE LET field == Head(items).key
             fn == Head(items).transform
         IN  ApplyColumns(Tail(items),
                 IF field \in DOMAIN attrs
                 THEN [attrs EXCEPT ![field] = ApplyColumnTransform(fn, @)]
                 ELSE attrs)

\* a loop over the tagged columns that does not skip a value of None
RECURSIVE ApplyTagColumnsNoSkip(_, _, _)
ApplyTagColumnsNoSkip(columns, fn, attrs) ==
    IF columns = <<>>
    THEN attrs
    ELSE LET value == AttrGet(attrs, Head(columns))
         IN  ApplyTagColumnsNoSkip(Tail(columns), fn,
                 DictPut(attrs, Head(columns), Some(ApplyTagTransform(fn, Str(value)))))

\* for column in self._schema.columns_for(tag): ...
RECURSIVE ApplyTagColumns(_, _, _)
ApplyTagColumns(columns, fn, attrs) ==
    IF columns = <<>>
    THEN attrs
    ELSE LET value == AttrGet(attrs, Head(columns))
         IN  ApplyTagColumns(Tail(columns), fn,
                 IF value = None
                 THEN attrs
                 ELSE DictPut(attrs, Head(columns), Some(ApplyTagTransform(fn, Str(value)))))

\* for tag, transform in self._tag_transforms.items(): ...
RECURSIVE ApplyTags(_, _)
ApplyTags(items, attrs) ==
    IF items = <<>>
    THEN attrs
    ELSE ApplyTags(Tail(items),
             ApplyTagColumns(ColumnsFor(Head(items).key), Head(items).transform, attrs))

\* the body of the loop over records
CleanRecord(cfg, record) ==
    LET attrs == ApplyColumns(cfg.transforms, record.attributes)
    IN  CustomerRecord(record.record_id,
                       IF cfg.schema THEN ApplyTags(cfg.tag_transforms, attrs) ELSE attrs)

\* the items of a dict: no key twice
DictItems(keys, fns, n) ==
    {s \in SeqsUpTo([key : keys, transform : fns], n) :
        \A a, b \in DOMAIN s : a # b => s[a].key # s[b].key}

CleanerConfigs ==
    [transforms : DictItems({"FIRSTNAME", "NOTE"}, ColumnTransforms, 2),
     tag_transforms : DictItems({"NAME", "EMAIL"}, TagTransforms, 1),
     schema : BOOLEAN]

\* attribute maps with a column absent, a column of None, a column outside
\* the schema, and no column at all
CleanAttributePool ==
    {[FIRSTNAME |-> Some(<<" ", "A">>), EMAIL |-> None],
     [FIRSTNAME |-> None, LASTNAME |-> Some(<<"B", " ">>), NOTE |-> Some(<<"A">>)],
     [EMAIL |-> Some(<<"A", "b">>)],
     [c \in {} |-> None]}

CleanRecordInputs == {CustomerRecord(id, attrs) : id \in 1..2, attrs \in CleanAttributePool}

CleanInit ==
    /\ cl_records \in SeqsUpTo(CleanRecordInputs, MaxBatch)
    /\ cl_config \in CleanerConfigs
    /\ cl_out = <<>>
    /\ cl_pc = "start"

CleanIdle ==
    /\ cl_records = <<>>
    /\ cl_config = [transforms |-> <<>>, tag_transforms |-> <<>>, schema |-> FALSE]
    /\ cl_out = <<>>
    /\ cl_pc = "idle"

\* cleaned = []
CleanEnter ==
    /\ cl_pc = "start"
    /\ cl_out' = <<>>
    /\ cl_pc' = IF cl_records = <<>> THEN "done" ELSE "loop"
    /\ UNCHANGED <<cl_records, cl_config>>
    /\ UNCHANGED otherThanClean

\* one iteration of the loop over records; return cleaned after the last
CleanStep ==
    /\ cl_pc = "loop"
    /\ cl_out' = Append(cl_out, CleanRecord(cl_config, cl_records[Len(cl_out) + 1]))
    /\ cl_pc' = IF Len(cl_out) + 1 = Len(cl_records) THEN "done" ELSE "loop"
    /\ UNCHANGED <<cl_records, cl_config>>
    /\ UNCHANGED otherThanClean

\* clean as a function of its argument
Clean(cfg, recs) == [k \in DOMAIN recs |-> CleanRecord(cfg, recs[k])]

(***************************************************************************)
(* NameFuzzyMatcher.match as a function of its argument: the outer loop    *)
(* run from the first record to the last.                                  *)
(***************************************************************************)
RECURSIVE FuzzyFrom(_, _, _, _)
FuzzyFrom(recs, i, edits, out) ==
    IF i > Len(recs)
    THEN out
    ELSE FuzzyFrom(recs, i + 1, edits, FuzzyOuter(recs, i, edits, out))

FuzzyMatch(recs, edits) == FuzzyFrom(recs, 1, edits, <<>>)

(***************************************************************************)
(* SimpleTextEmbeddingModel and DefaultEmbeddingMatcher.match.  A vector   *)
(* divided by its norm is kept as the vector of token counts together with *)
(* the square of the norm; the dot product of two such vectors is then     *)
(* dot(counts) / sqrt(norm2 * norm2), rendered in hundredths, rounded      *)
(* down.  A threshold that is a whole number of hundredths is met by the   *)
(* exact quotient exactly when it is met by the rendering.                 *)
(***************************************************************************)
dimensions == 64
embedding_tags == <<"NAME", "ADDRESS", "EMAIL">>

\* str.split(): the maximal runs of characters that are not whitespace
RECURSIVE SplitFrom(_, _, _)
SplitFrom(s, cur, out) ==
    IF s = <<>>
    THEN IF cur = <<>> THEN out ELSE Append(out, cur)
    ELSE IF IsSpace(Head(s))
         THEN SplitFrom(Tail(s), <<>>, IF cur = <<>> THEN out ELSE Append(out, cur))
         ELSE SplitFrom(Tail(s), Append(cur, Head(s)), out)
Split(s) == SplitFrom(s, <<>>, <<>>)

\* [part.lower() for part in text_parts if part]
RECURSIVE LoweredParts(_, _)
LoweredParts(attributes, tags) ==
    IF tags = <<>>
    THEN <<>>
    ELSE LET part == JoinedValue(attributes, Head(tags))
             rest == LoweredParts(attributes, Tail(tags))
         IN  IF part = <<>> THEN rest ELSE <<Lower(part)>> \o rest

\* lines 27-28: the text that is embedded
EmbedText(record) ==
    Strip(Join(LoweredParts(record.attributes, embedding_tags), <<" ">>))

\* lines 26, 29-31: one count per dimension
TokenCounts(tokens, h) ==
    [d \in 1..dimensions |->
        Cardinality({k \in DOMAIN tokens : h[tokens[k]] = d - 1})]

\* _l2_normalize: the zero vector stays the zero vector
L2Normalize(vector) ==
    [counts |-> vector, norm2 |-> Dot(vector, vector)]

\* embed
Embed(recs, h) ==
    [k \in DOMAIN recs |-> L2Normalize(TokenCounts(Split(EmbedText(recs[k])), h))]

\* the quotient num / sqrt(den2) in hundredths, rounded down, for num >= 0
Hundredths(num, den2) ==
    CHOOSE k \in 0..100 :
        /\ k * k * den2 <= 10000 * num * num
        /\ k = 100 \/ (k + 1) * (k + 1) * den2 > 10000 * num * num

\* _dot of two normalised vectors
UnitDot(left, right) ==
    IF left.norm2 = 0 \/ right.norm2 = 0
    THEN 0
    ELSE Hundredths(Dot(left.counts, right.counts), left.norm2 * right.norm2)

\* query_similar_pairs over normalised vectors
RECURSIVE UnitQueryFrom(_, _, _, _)
UnitQueryFrom(ix, todo, t, out) ==
    IF todo = <<>>
    THEN out
    ELSE LET i == Head(todo)[1]
             j == Head(todo)[2]
             score == UnitDot(ix.vectors[i], ix.vectors[j])
         IN  IF score >= t
             THEN UnitQueryFrom(ix, Tail(todo), t,
                      Append(out, MatchCandidate(ix.record_ids[i], ix.record_ids[j],
                                                 score, [source |-> "embedding"])))
             ELSE UnitQueryFrom(ix, Tail(todo), t, out)

UnitQuery(ix, t) == UnitQueryFrom(ix, PairsFrom(1, 2, Len(ix.vectors)), t, <<>>)

\* DefaultEmbeddingMatcher.match: embed, build, query.  embed returns one
\* vector per record, so every vector of the index has an id.
RecordIdsOf(recs) == [k \in DOMAIN recs |-> recs[k].record_id]
EmbeddingBuild(ix, recs, h) == Build(ix, RecordIdsOf(recs), Embed(recs, h))
EmbeddingMatch(recs, h, t) == UnitQuery(EmbeddingBuild(NewIndex, recs, h), t)

(***************************************************************************)
(* LocalDedupePipeline.run                                                 *)
(***************************************************************************)
HashSpread == 2

\* deterministic_candidates + embedding_candidates, the other way round
AllCandidatesEmbeddingFirst(det, emb) == emb \o det

\* deterministic_candidates + embedding_candidates
AllCandidates(det, emb) == det \o emb

\* the tokens that embed hashes for a batch
TokensOf(recs) == UNION {Range(Split(EmbedText(recs[k]))) : k \in DOMAIN recs}

\* the values hash(token) % dimensions can take on a batch: the model lets
\* the tokens fall in any way on the first HashSpread dimensions
HashAssignments(recs) == [TokensOf(recs) -> 0..(HashSpread - 1)]

PlainCleaner == [transforms |-> <<>>, tag_transforms |-> <<>>, schema |-> TRUE]
PipeCleaners ==
    {PlainCleaner,
     [transforms |-> <<[key |-> "LASTNAME", transform |-> "drop"]>>,
      tag_transforms |-> <<[key |-> "EMAIL", transform |-> "strip"]>>,
      schema |-> TRUE]}
PipeConfigs == [cleaner : PipeCleaners, max_edits : {1}, similarity_threshold : {60}]

\* joined names "A b", "a" and "ab"; texts "a b c", "a c" and "ab"
PipeAttributePool ==
    {[FIRSTNAME |-> Some(<<"A">>), LASTNAME |-> Some(<<"b">>), EMAIL |-> Some(<<"c">>)],
     [FIRSTNAME |-> Some(<<"a">>), EMAIL |-> Some(<<"c", " ">>)],
     [FIRSTNAME |-> Some(<<"a", "b">>), BILLING_ADDRESS_LINE1 |-> None]}
PipeRecordInputs ==
    {CustomerRecord(id, attrs) : id \in {1, 2}, attrs \in PipeAttributePool}

PipeStart ==
    /\ pl_cleaned = <<>>
    /\ pl_det = <<>>
    /\ pl_emb = <<>>
    /\ pl_index = NewIndex
    /\ pl_all = <<>>
    /\ pl_clusters = <<>>

PipeInit ==
    /\ pl_records \in SeqsUpTo(PipeRecordInputs, MaxBatch)
    /\ pl_config \in PipeConfigs
    /\ pl_hash \in HashAssignments(Clean(pl_config.cleaner, pl_records))
    /\ PipeStart
    /\ pl_pc = "clean"

PipeIdle ==
    /\ pl_records = <<>>
    /\ pl_config = [cleaner |-> PlainCleaner, max_edits |-> 0, similarity_threshold |-> 0]
    /\ pl_hash = [t \in {} |-> 0]
    /\ PipeStart
    /\ pl_pc = "idle"

\* the batch of the repository's pipeline test
Jane == <<"J", "a", "n", "e">>
Smith == <<"S", "m", "i", "t", "h">>
Smit == <<"S", "m", "i", "t">>
MarketStreet == <<"1", "2", " ", "M", "a", "r", "k", "e", "t", " ", "S", "t", "r", "e", "e", "t">>
MarketSt == <<"1", "2", " ", "M", "a", "r", "k", "e", "t", " ", "S", "t">>
JaneMail == <<"j", "a", "n", "e", "@", "e", "x", "a", "m", "p", "l", "e", ".", "c", "o", "m">>
Alex == <<"A", "l", "e", "x">>
Doe == <<"D", "o", "e">>
PineRoad == <<"4", "4", " ", "P", "i", "n", "e", " ", "R", "o", "a", "d">>
AlexMail == <<"a", "l", "e", "x", "@", "e", "x", "a", "m", "p", "l", "e", ".", "c", "o", "m">>
ScenarioRecord(id, first, last, address, email) ==
    CustomerRecord(id, [FIRSTNAME |-> Some(first), LASTNAME |-> Some(last),
                        BILLING_ADDRESS_LINE1 |-> Some(address), EMAIL |-> Some(email)])
ScenarioRecords ==
    <<ScenarioRecord(1, Jane, Smith, MarketStreet, JaneMail),
      ScenarioRecord(2, Jane, Smit, MarketSt, JaneMail),
      ScenarioRecord(3, Alex, Doe, PineRoad, AlexMail)>>
ScenarioConfig == [cleaner |-> PlainCleaner, max_edits |-> 1, similarity_threshold |-> 60]

ScenarioInit ==
    /\ pl_records = ScenarioRecords
    /\ pl_config = ScenarioConfig
    /\ pl_hash \in HashAssignments(Clean(pl_config.cleaner, pl_records))
    /\ PipeStart
    /\ pl_pc = "clean"

\* line 24
PipeClean ==
    /\ pl_pc = "clean"
    /\ pl_cleaned' = Clean(pl_config.cleaner, pl_records)
    /\ pl_pc' = "deterministic"
    /\ UNCHANGED <<pl_records, pl_config, pl_hash, pl_det, pl_emb, pl_index, pl_all,
                   pl_clusters>>
    /\ UNCHANGED otherThanPipe

\* line 25
PipeDeterministic ==
    /\ pl_pc = "deterministic"
    /\ pl_det' = FuzzyMatch(pl_cleaned, pl_config.max_edits)
    /\ pl_pc' = "embedding"
    /\ UNCHANGED <<pl_records, pl_config, pl_hash, pl_cleaned, pl_emb, pl_index, pl_all,
                   pl_clusters>>
    /\ UNCHANGED otherThanPipe

\* line 26
PipeEmbedding ==
    /\ pl_pc = "embedding"
    /\ pl_index' = EmbeddingBuild(pl_index, pl_cleaned, pl_hash)
    /\ pl_emb' = UnitQuery(pl_index', pl_config.similarity_threshold)
    /\ pl_pc' = "concatenate"
    /\ UNCHANGED <<pl_records, pl_config, pl_hash, pl_cleaned, pl_det, pl_all, pl_clusters>>
    /\ UNCHANGED otherThanPipe

\* line 28
PipeConcatenate ==
    /\ pl_pc = "concatenate"
    /\ pl_all' = AllCandidates(pl_det, pl_emb)
    /\ pl_pc' = "cluster"
    /\ UNCHANGED <<pl_records, pl_config, pl_hash, pl_cleaned, pl_det, pl_emb, pl_index,
                   pl_clusters>>
    /\ UNCHANGED otherThanPipe

\* line 29
PipeCluster ==
    /\ pl_pc = "cluster"
    /\ pl_clusters' = ClusterOf(pl_all)
    /\ pl_pc' = "done"
    /\ UNCHANGED <<pl_records, pl_config, pl_hash, pl_cleaned, pl_det, pl_emb, pl_index,
                   pl_all>>
    /\ UNCHANGED otherThanPipe

(***************************************************************************)
(* cli._apply_email_constraint, the filter run between concatenation and   *)
(* clustering.  RETAIL_SCHEMA maps the tag EMAIL to the column EMAIL, as   *)
(* the schema above does.                                                  *)
(***************************************************************************)
\* the first position of ch in s, or 0
FirstIndex(s, ch) ==
    IF \E k \in DOMAIN s : s[k] = ch
    THEN CHOOSE k \in DOMAIN s : s[k] = ch /\ \A m \in 1..(k - 1) : s[m] # ch
    ELSE 0

\* local.replace(".", "")
RECURSIVE WithoutDots(_)
WithoutDots(s) ==
    IF s = <<>> THEN <<>>
    ELSE IF Head(s) = "." THEN WithoutDots(Tail(s))
    ELSE <<Head(s)>> \o WithoutDots(Tail(s))

GmailDomain == <<"g", "m", "a", "i", "l", ".", "c", "o", "m">>
GooglemailDomain ==
    <<"g", "o", "o", "g", "l", "e", "m",
      "a", "i", "l", ".", "c", "o", "m">>

\* a canonical form that leaves the dots of the local part in place
CanonicalEmailKeepDots(email) ==
    LET e == Lower(Strip(email))
        at == FirstIndex(e, "@")
    IN  IF at = 0
        THEN e
        ELSE LET local0 == SubSeq(e, 1, at - 1)
                 domain == SubSeq(e, at + 1, Len(e))
                 plus == FirstIndex(local0, "+")
                 local1 == IF plus = 0 THEN local0 ELSE SubSeq(local0, 1, plus - 1)
             IN  local1 \o <<"@">> \o domain

\* _canonical_email
CanonicalEmail(email) ==
    LET e == Lower(Strip(email))
        at == FirstIndex(e, "@")
    IN  IF at = 0
        THEN e
        ELSE LET local0 == SubSeq(e, 1, at - 1)
                 domain == SubSeq(e, at + 1, Len(e))
                 plus == FirstIndex(local0, "+")
                 local1 == IF plus = 0 THEN local0 ELSE SubSeq(local0, 1, plus - 1)
                 local2 == IF domain \in {GmailDomain, GooglemailDomain}
                           THEN WithoutDots(local1)
                           ELSE local1
             IN  local2 \o <<"@">> \o domain

\* _emails_compatible
EmailsCompatible(left, right) ==
    IF left = <<>> \/ right = <<>> THEN TRUE ELSE left = right

\* the loop that fills emails_by_id; a later record of the same id overwrites
RECURSIVE EmailsById(_, _)
EmailsById(recs, by_id) ==
    IF recs = <<>>
    THEN by_id
    ELSE EmailsById(Tail(recs),
             DictPut(by_id, Head(recs).record_id,
                     CanonicalEmail(JoinedValue(Head(recs).attributes, "EMAIL"))))

\* emails_by_id.get(id, "")
EmailOf(by_id, id) == IF id \in DOMAIN by_id THEN by_id[id] ELSE <<>>

\* the loop that fills filtered
RECURSIVE FilterCandidates(_, _)
FilterCandidates(cands, by_id) ==
    IF cands = <<>>
    THEN <<>>
    ELSE LET c == Head(cands)
             rest == FilterCandidates(Tail(cands), by_id)
         IN  IF EmailsCompatible(EmailOf(by_id, c.left_id), EmailOf(by_id, c.right_id))
             THEN <<c>> \o rest
             ELSE rest

JaneGmail ==
    <<"j", "a", "n", "e", "@", "g", "m",
      "a", "i", "l", ".", "c", "o", "m">>
JaneDoePromo ==
    <<"j", "a", "n", "e", ".", "d", "o", "e", "+", "p", "r", "o",
      "m", "o", "@", "g", "m", "a", "i", "l", ".", "c", "o", "m">>
JAnePromo ==
    <<"J", ".", "a", "n", "e", "+", "p", "r", "o", "m", "o",
      "@", "G", "m", "a", "i", "l", ".", "c", "o", "m", " ">>
AtX == <<"a", "@", "x", ".", "c", "o", "m">>
AtY == <<"b", "@", "y", ".", "c", "o", "m">>
\* the EMAIL attribute of a record: a string, None, or no such column
EmailAttributes ==
    {[EMAIL |-> Some(e)] : e \in {JaneGmail, JaneDoePromo, JAnePromo, AtX, AtY}}
        \cup {[EMAIL |-> None]}

\* four records, of ids 1 to 4
EmailRecordLists ==
    {[k \in 1..4 |-> CustomerRecord(k, f[k])] : f \in [1..4 -> EmailAttributes]}

\* candidates between the records, and one that names an id of no record
EmailCandidateInputs ==
    {MatchCandidate(p[1], p[2], 90, "any") : p \in {<<1, 2>>, <<3, 4>>, <<2, 3>>, <<1, 5>>}}

Constraints == {"none", "canonical"}

EmailInit ==
    /\ em_records \in EmailRecordLists
    /\ em_candidates \in SeqsUpTo(EmailCandidateInputs, MaxCands)
    /\ em_constraint \in Constraints
    /\ em_emails_by_id = EmptyDict
    /\ em_filtered = <<>>
    /\ em_pc = "start"

EmailIdle ==
    /\ em_records = <<>>
    /\ em_candidates = <<>>
    /\ em_constraint = "none"
    /\ em_emails_by_id = EmptyDict
    /\ em_filtered = <<>>
    /\ em_pc = "idle"

\* lines 290-296: return candidates at once, or fill emails_by_id
EmailEnter ==
    /\ em_pc = "start"
    /\ IF em_constraint = "none"
       THEN /\ em_filtered' = em_candidates
            /\ em_emails_by_id' = em_emails_by_id
            /\ em_pc' = "done"
       ELSE /\ em_emails_by_id' = EmailsById(em_records, EmptyDict)
            /\ em_filtered' = <<>>
            /\ em_pc' = "filter"
    /\ UNCHANGED <<em_records, em_candidates, em_constraint>>
    /\ UNCHANGED otherThanEmail

\* lines 298-304
EmailFilter ==
    /\ em_pc = "filter"
    /\ em_filtered' = FilterCandidates(em_candidates, em_emails_by_id)
    /\ em_pc' = "done"
    /\ UNCHANGED <<em_records, em_candidates, em_constraint, em_emails_by_id>>
    /\ UNCHANGED otherThanEmail

(***************************************************************************)
(* A _UnionFind in the hands of a caller: any sequence of find, union and  *)
(* groups calls on one instance, each call one step.  find calls itself    *)
(* once per parent pointer it follows, and the interpreter raises          *)
(* RecursionError when the frames run out (sys.getrecursionlimit(), 1000   *)
(* by default).  The model scales the limit down with the items: MaxFrames *)
(* is the number of frames the caller has left, fewer than the longest     *)
(* chain of parents the items can form.                                    *)
(***************************************************************************)
MaxItems == 4
MaxCalls == 4
MaxFrames == 3

Items == 1..MaxItems

NoCall == [op |-> "none", left |-> 0, right |-> 0]
NoResult == [status |-> "none", root |-> 0]

\* the number of parent pointers find follows from x, at most fuel of them
RECURSIVE Hops(_, _, _)
Hops(parent, x, fuel) ==
    IF fuel = 0 \/ x \notin DOMAIN parent
    THEN 0
    ELSE IF parent[x] = x THEN 0 ELSE 1 + Hops(parent, parent[x], fuel - 1)

\* the frames a find of item takes: its own and one for each pointer followed
Frames(u, item) == 1 + Hops(u.parent, item, Cardinality(DOMAIN u.parent))

\* find with `frames` frames left.  The assignments of find come after its
\* recursive call has returned, so a find that runs out of frames has changed
\* nothing: only an item that has an entry is found by recursion.
FindWithin(u, item, frames) ==
    IF Frames(u, item) > frames
    THEN [status |-> "RecursionError", uf |-> u, root |-> 0]
    ELSE LET f == Find(u, item)
         IN  [status |-> "ok", uf |-> f.uf, root |-> f.root]

\* union with `frames` frames left, one of which is its own.  What the first
\* find has done stays done when the second one raises.
UnionWithin(u, left, right, frames) ==
    LET fl == FindWithin(u, left, frames - 1)
    IN  IF fl.status # "ok"
        THEN [status |-> fl.status, uf |-> u]
        ELSE LET fr == FindWithin(fl.uf, right, frames - 1)
             IN  IF fr.status # "ok"
                 THEN [status |-> fr.status, uf |-> fl.uf]
                 ELSE [status |-> "ok", uf |-> Union(u, left, right)]

\* groups with `frames` frames left, one of which is its own
RECURSIVE GroupsWithin(_, _, _)
GroupsWithin(u, items, frames) ==
    IF items = <<>>
    THEN [status |-> "ok", uf |-> u]
    ELSE LET f == FindWithin(u, Head(items), frames - 1)
         IN  IF f.status # "ok"
             THEN [status |-> f.status, uf |-> u]
             ELSE GroupsWithin(f.uf, Tail(items), frames)

\* __init__: an empty _parent
DsuInit ==
    /\ dsu = EmptyUF
    /\ dsu_before = EmptyUF
    /\ dsu_call = NoCall
    /\ dsu_result = NoResult
    /\ dsu_calls = 0

DsuIdle ==
    /\ dsu = EmptyUF
    /\ dsu_before = EmptyUF
    /\ dsu_call = [op |-> "idle", left |-> 0, right |-> 0]
    /\ dsu_result = NoResult
    /\ dsu_calls = 0

\* a call of find(item)
DsuFind ==
    /\ dsu_calls < MaxCalls
    /\ \E item \in Items :
        LET f == FindWithin(dsu, item, MaxFrames)
        IN  /\ dsu' = f.uf
            /\ dsu_result' = [status |-> f.status, root |-> f.root]
            /\ dsu_call' = [op |-> "find", left |-> item, right |-> item]
    /\ dsu_before' = dsu
    /\ dsu_calls' = dsu_calls + 1
    /\ UNCHANGED otherThanDsu

\* a call of union(left, right); it returns None
DsuUnion ==
    /\ dsu_calls < MaxCalls
    /\ \E left \in Items, right \in Items :
        LET un == UnionWithin(dsu, left, right, MaxFrames)
        IN  /\ dsu' = un.uf
            /\ dsu_result' = [status |-> un.status, root |-> 0]
            /\ dsu_call' = [op |-> "union", left |-> left, right |-> right]
    /\ dsu_before' = dsu
    /\ dsu_calls' = dsu_calls + 1
    /\ UNCHANGED otherThanDsu

\* a call of groups(): a find of every key, in the order of the dict
DsuGroups ==
    /\ dsu_calls < MaxCalls
    /\ LET g == GroupsWithin(dsu, dsu.keys, MaxFrames)
       IN  /\ dsu' = g.uf
           /\ dsu_result' = [status |-> g.status, root |-> 0]
    /\ dsu_call' = [op |-> "groups", left |-> 0, right |-> 0]
    /\ dsu_before' = dsu
    /\ dsu_calls' = dsu_calls + 1
    /\ UNCHANGED otherThanDsu

(***************************************************************************)
(* DefaultEmbeddingMatcher.match called by two callers on one matcher, so  *)
(* on one _vector_index.  vectors and ids are locals of each call; build   *)
(* is two assignments to the index and query_similar_pairs reads it.  A    *)
(* caller's steps may fall between the steps of the other.                 *)
(***************************************************************************)
Callers == {1, 2}

\* the ids of the batch each caller hands in
BatchIds == <<<<1, 2>>, <<3, 4>>>>

MatchBatches(c) ==
    {<<CustomerRecord(BatchIds[c][1], a), CustomerRecord(BatchIds[c][2], b)>> :
        a \in PipeAttributePool, b \in PipeAttributePool}

\* the default of DefaultEmbeddingMatcher, 0.85, in hundredths
similarity_threshold == 85

MatchInit ==
    /\ mt_batch \in {b \in [Callers -> UNION {MatchBatches(c) : c \in Callers}] :
                        \A c \in Callers : b[c] \in MatchBatches(c)}
    /\ mt_hash \in HashAssignments(mt_batch[1] \o mt_batch[2])
    /\ mt_index = NewIndex
    /\ mt_vectors = [c \in Callers |-> <<>>]
    /\ mt_ids = [c \in Callers |-> <<>>]
    /\ mt_result = [c \in Callers |-> <<>>]
    /\ mt_pc = [c \in Callers |-> "embed"]

MatchIdle ==
    /\ mt_batch = [c \in Callers |-> <<>>]
    /\ mt_hash = EmptyDict
    /\ mt_index = NewIndex
    /\ mt_vectors = [c \in Callers |-> <<>>]
    /\ mt_ids = [c \in Callers |-> <<>>]
    /\ mt_result = [c \in Callers |-> <<>>]
    /\ mt_pc = [c \in Callers |-> "idle"]

\* lines 116-117: vectors = embed(records); ids = [r.record_id for r in records]
MatchEmbed(c) ==
    /\ mt_pc[c] = "embed"
    /\ mt_vectors' = [mt_vectors EXCEPT ![c] = Embed(mt_batch[c], mt_hash)]
    /\ mt_ids' = [mt_ids EXCEPT ![c] = RecordIdsOf(mt_batch[c])]
    /\ mt_pc' = [mt_pc EXCEPT ![c] = "build_ids"]
    /\ UNCHANGED <<mt_batch, mt_hash, mt_index, mt_result>>
    /\ UNCHANGED otherThanMatch

\* line 118, build, line 84: self._record_ids = list(record_ids)
MatchBuildIds(c) ==
    /\ mt_pc[c] = "build_ids"
    /\ mt_index' = [mt_index EXCEPT !.record_ids = mt_ids[c]]
    /\ mt_pc' = [mt_pc EXCEPT ![c] = "build_vectors"]
    /\ UNCHANGED <<mt_batch, mt_hash, mt_vectors, mt_ids, mt_result>>
    /\ UNCHANGED otherThanMatch

\* build, line 85: self._vectors = [list(v) for v in vectors]
MatchBuildVectors(c) ==
    /\ mt_pc[c] = "build_vectors"
    /\ mt_index' = [mt_index EXCEPT !.vectors = mt_vectors[c]]
    /\ mt_pc' = [mt_pc EXCEPT ![c] = "query"]
    /\ UNCHANGED <<mt_batch, mt_hash, mt_vectors, mt_ids, mt_result>>
    /\ UNCHANGED otherThanMatch

\* line 119: return self._vector_index.query_similar_pairs(threshold)
MatchQuery(c) ==
    /\ mt_pc[c] = "query"
    /\ mt_result' = [mt_result EXCEPT ![c] = UnitQuery(mt_index, similarity_threshold)]
    /\ mt_pc' = [mt_pc EXCEPT ![c] = "done"]
    /\ UNCHANGED <<mt_batch, mt_hash, mt_index, mt_vectors, mt_ids>>
    /\ UNCHANGED otherThanMatch

LastIdle == DsuIdle /\ MatchIdle

LaterIdle == SchemaIdle /\ CleanIdle /\ PipeIdle /\ EmailIdle /\ LastIdle

(***************************************************************************)
(* Specifications: one per component, the other components at rest.        *)
(***************************************************************************)
ClusterIdle ==
    /\ candidates = <<>>
    /\ pc = "idle"
    /\ pos = 0
    /\ uf = EmptyUF
    /\ score_map = EmptyDict
    /\ groups = <<>>
    /\ clusters = <<>>

Init == ClusterInit /\ LevIdle /\ FuzzyIdle /\ IndexIdle /\ LaterIdle
Next ==
    \/ ClusterEnter
    \/ ClusterUnionStep
    \/ ClusterScoreStep
    \/ ClusterGroupsStep
    \/ ClusterEmitStep
Spec == Init /\ [][Next]_vars

LevSpecInit == LevInit /\ ClusterIdle /\ FuzzyIdle /\ IndexIdle /\ LaterIdle
LevNext == LevCall
SpecLev == LevSpecInit /\ [][LevNext]_vars

FuzzySpecInit == FuzzyInit /\ ClusterIdle /\ LevIdle /\ IndexIdle /\ LaterIdle
FuzzyNext ==
    \/ FuzzyEnter
    \/ FuzzyOuterStep
SpecFuzzy == FuzzySpecInit /\ [][FuzzyNext]_vars

IndexSpecInit == IndexInit /\ ClusterIdle /\ LevIdle /\ FuzzyIdle /\ LaterIdle
IndexNext ==
    \/ IndexBuild
    \/ IndexQuery
SpecIndex == IndexSpecInit /\ [][IndexNext]_vars

RequeryNext ==
    \/ IndexBuild
    \/ IndexQuery
    \/ IndexRequery
SpecRequery == IndexSpecInit /\ [][RequeryNext]_vars

SessionSpecInit == SessionInit /\ ClusterIdle /\ LevIdle /\ FuzzyIdle /\ LaterIdle
SessionNext ==
    \/ SessionBuild
    \/ SessionQuery
SpecSession == SessionSpecInit /\ [][SessionNext]_vars

CoreIdle == ClusterIdle /\ LevIdle /\ FuzzyIdle /\ IndexIdle

SchemaSpecInit == SchemaInit /\ CoreIdle /\ CleanIdle /\ PipeIdle /\ EmailIdle /\ LastIdle
SchemaNext == SchemaFromMapping
SpecSchema == SchemaSpecInit /\ [][SchemaNext]_vars

CleanSpecInit == CleanInit /\ CoreIdle /\ SchemaIdle /\ PipeIdle /\ EmailIdle /\ LastIdle
CleanNext ==
    \/ CleanEnter
    \/ CleanStep
SpecClean == CleanSpecInit /\ [][CleanNext]_vars

PipeSpecInit == PipeInit /\ CoreIdle /\ SchemaIdle /\ CleanIdle /\ EmailIdle /\ LastIdle
PipeNext ==
    \/ PipeClean
    \/ PipeDeterministic
    \/ PipeEmbedding
    \/ PipeConcatenate
    \/ PipeCluster
SpecPipeline == PipeSpecInit /\ [][PipeNext]_vars

ScenarioSpecInit == ScenarioInit /\ CoreIdle /\ SchemaIdle /\ CleanIdle /\ EmailIdle /\ LastIdle
SpecScenario == ScenarioSpecInit /\ [][PipeNext]_vars

EmailSpecInit == EmailInit /\ CoreIdle /\ SchemaIdle /\ CleanIdle /\ PipeIdle /\ LastIdle
EmailNext ==
    \/ EmailEnter
    \/ EmailFilter
SpecEmail == EmailSpecInit /\ [][EmailNext]_vars

EarlierIdle == CoreIdle /\ SchemaIdle /\ CleanIdle /\ PipeIdle /\ EmailIdle

DsuSpecInit == DsuInit /\ EarlierIdle /\ MatchIdle
DsuNext ==
    \/ DsuFind
    \/ DsuUnion
    \/ DsuGroups
SpecUnionFind == DsuSpecInit /\ [][DsuNext]_vars

MatchSpecInit == MatchInit /\ EarlierIdle /\ DsuIdle
MatchNext ==
    \E c \in Callers :
        \/ MatchEmbed(c)
        \/ MatchBuildIds(c)
        \/ MatchBuildVectors(c)
        \/ MatchQuery(c)
SpecSharedMatcher == MatchSpecInit /\ [][MatchNext]_vars

(***************************************************************************)
(* Properties of cluster().                                                *)
(***************************************************************************)
Done == pc = "done"

MemberSet(c) == Range(c.record_ids)
MemberSets(cs) == {MemberSet(cs[k]) : k \in DOMAIN cs}
Covered(cs) == UNION MemberSets(cs)
RootOfCluster(c) == c.cluster_id[2]

\* the ids named by some candidate, and those named by one that pairs two ids
Participants(cands) ==
    {cands[k].left_id : k \in DOMAIN cands} \cup {cands[k].right_id : k \in DOMAIN cands}
ProperParticipants(cands) ==
    {x \in Participants(cands) :
        \E k \in DOMAIN cands :
            /\ cands[k].left_id # cands[k].right_id
            /\ x \in {cands[k].left_id, cands[k].right_id}}

\* connected components of the undirected graph of candidate edges
Neighbours(cands, S) ==
    S \cup {cands[k].right_id : k \in {m \in DOMAIN cands : cands[m].left_id \in S}}
      \cup {cands[k].left_id : k \in {m \in DOMAIN cands : cands[m].right_id \in S}}
RECURSIVE Closure(_, _)
Closure(cands, S) ==
    IF Neighbours(cands, S) = S THEN S ELSE Closure(cands, Neighbours(cands, S))
Components(cands) == {Closure(cands, {x}) : x \in Participants(cands)}

\* the representative of an item in a parent map, by following the pointers
RECURSIVE RootIn(_, _)
RootIn(parent, x) == IF parent[x] = x THEN x ELSE RootIn(parent, parent[x])

ScoresWhere(cands, P(_)) ==
    LET kept == SelectSeq(cands, P)
    IN  [k \in DOMAIN kept |-> kept[k].score]

SameMean(a, b) == a.n > 0 /\ b.n > 0 /\ a.sum * b.n = b.sum * a.n

Perms(s) == {[k \in DOMAIN s |-> s[p[k]]] : p \in Permutations(DOMAIN s)}

\* C1: the clusters cluster() returns are pairwise disjoint, and no record id
\* occurs twice in the record_ids of one cluster.
C1_Disjoint ==
    Done =>
        /\ \A k \in DOMAIN clusters :
              \A i, j \in DOMAIN clusters[k].record_ids :
                  i # j => clusters[k].record_ids[i] # clusters[k].record_ids[j]
        /\ \A k, m \in DOMAIN clusters :
              k # m => MemberSet(clusters[k]) \cap MemberSet(clusters[m]) = {}

C1_Witness == Done /\ Len(clusters) = 2

\* C2: the member sets of the returned clusters are exactly the connected
\* components of size >= 2 of the candidate graph, one cluster per component,
\* and every cluster has at least 2 members.
C2_Components ==
    Done =>
        /\ MemberSets(clusters) =
              {K \in Components(candidates) : Cardinality(K) >= 2}
        /\ Cardinality(MemberSets(clusters)) = Len(clusters)
        /\ \A k \in DOMAIN clusters : Len(clusters[k].record_ids) >= 2

\* a cluster of three records joined only through a path of two candidates
C2_Witness ==
    /\ Done
    /\ \E k \in DOMAIN clusters : Len(clusters[k].record_ids) = 3
    /\ Len(candidates) = 2

C4_CoverAllParticipants ==
    Done /\ candidates # <<>> =>
        /\ Covered(clusters) = Participants(candidates)
        /\ \A k \in DOMAIN groups : Len(groups[k].members) >= 2

\* C4, amended: the clusters cover exactly the ids that appear in some candidate
\* whose two endpoints differ, each in one cluster; a group of size 1 is exactly
\* an id that candidates pair only with itself, and the size check discards it.
C4_CoverProperParticipants ==
    Done /\ candidates # <<>> =>
        /\ Covered(clusters) = ProperParticipants(candidates)
        /\ \A x \in ProperParticipants(candidates) :
              Cardinality({k \in DOMAIN clusters : x \in MemberSet(clusters[k])}) = 1
        /\ {groups[k].members[1] : k \in {m \in DOMAIN groups : Len(groups[m].members) = 1}}
              = Participants(candidates) \ ProperParticipants(candidates)
        /\ \A k \in DOMAIN groups : Len(groups[k].members) >= 1

\* a run that emits a cluster and discards the group of a self-paired id
C4_Witness ==
    /\ Done
    /\ clusters # <<>>
    /\ \E k \in DOMAIN groups : Len(groups[k].members) = 1

\* C5: the confidence of every returned cluster is the mean of the scores of
\* the candidates whose left_id has the cluster's root as its representative
\* after all unions; there is at least one, so the [0.0] fallback is not used.
C5_ConfidenceLeftRoot ==
    Done =>
        \A k \in DOMAIN clusters :
            LET root == RootOfCluster(clusters[k])
                LeftHere(c) == RootIn(uf.parent, c.left_id) = root
                mine == ScoresWhere(candidates, LeftHere)
            IN  /\ mine # <<>>
                /\ root \in DOMAIN score_map
                /\ clusters[k].confidence = [sum |-> SumSeq(mine), n |-> Len(mine)]

\* a cluster averaging two different scores, one from a candidate whose left_id
\* is not the root
C5_Witness ==
    /\ Done
    /\ \E k \in DOMAIN clusters :
          /\ clusters[k].confidence.n = 2
          /\ candidates[1].score # candidates[2].score
          /\ \E m \in DOMAIN candidates :
                candidates[m].left_id # RootOfCluster(clusters[k])

IncidentMean(cands, members) ==
    LET Touches(c) == c.left_id \in members \/ c.right_id \in members
    IN  Mean(ScoresWhere(cands, Touches))

\* C6 as stated: some candidate list makes the confidence of a cluster differ
\* from the mean over all candidates with the left or the right endpoint in it
\* (the lists are those a run of cluster can be given within the bounds).
C6_SomeListDiffers ==
    Done =>
        \E cands \in SeqsUpTo(CandidateInputs, MaxCands) :
            \E k \in DOMAIN ClusterOf(cands) :
                ~SameMean(ClusterOf(cands)[k].confidence,
                          IncidentMean(cands, MemberSet(ClusterOf(cands)[k])))

\* C6, amended: for every candidate list the confidence of every cluster equals
\* the mean over all candidates with the left or the right endpoint in the
\* cluster; the left-endpoint accounting is not observable.
C6_SameAsIncidentMean ==
    Done =>
        \A k \in DOMAIN clusters :
            SameMean(clusters[k].confidence,
                     IncidentMean(candidates, MemberSet(clusters[k])))

\* a cluster whose two candidates carry different scores, one of them with the
\* root as its right endpoint only
C6_Witness ==
    /\ Done
    /\ Len(clusters) = 1
    /\ Len(candidates) = 2
    /\ candidates[1].score # candidates[2].score
    /\ candidates[2].right_id = RootOfCluster(clusters[1])
    /\ candidates[2].left_id # RootOfCluster(clusters[1])

(***************************************************************************)
(* Properties of _levenshtein and NameFuzzyMatcher.match.                  *)
(***************************************************************************)
\* the edit distance by its defining recurrence on the two strings
RECURSIVE ClassicLev(_, _)
ClassicLev(a, b) ==
    IF a = <<>> THEN Len(b)
    ELSE IF b = <<>> THEN Len(a)
    ELSE Min2(ClassicLev(Tail(a), b) + 1,
              Min2(ClassicLev(a, Tail(b)) + 1,
                   ClassicLev(Tail(a), Tail(b)) + (IF Head(a) = Head(b) THEN 0 ELSE 1)))

LexLess(p, q) == p[1] < q[1] \/ (p[1] = q[1] /\ p[2] < q[2])

\* a set of position pairs as the list in lexicographic order
RECURSIVE LexSorted(_)
LexSorted(S) ==
    IF S = {}
    THEN <<>>
    ELSE LET first == CHOOSE p \in S : \A q \in S : p = q \/ LexLess(p, q)
         IN  <<first>> \o LexSorted(S \ {first})

PositionPairs(n) == {<<i, j>> : i \in 1..n, j \in 1..n} \ {p \in (1..n) \X (1..n) : p[1] >= p[2]}

LoweredName(record) == Lower(JoinedValue(record.attributes, "NAME"))

FuzzyKept(recs, edits) ==
    {p \in PositionPairs(Len(recs)) :
        /\ LoweredName(recs[p[1]]) # <<>>
        /\ LoweredName(recs[p[2]]) # <<>>
        /\ ClassicLev(LoweredName(recs[p[1]]), LoweredName(recs[p[2]])) <= edits}

FuzzyExpected(recs, edits) ==
    LET kept == LexSorted(FuzzyKept(recs, edits))
    IN  [k \in DOMAIN kept |->
            [left_id |-> recs[kept[k][1]].record_id,
             right_id |-> recs[kept[k][2]].record_id,
             score |-> 70,
             metadata |-> [rule |-> "name_levenshtein", tag |-> "NAME"]]]

DistinctIds(recs) ==
    \A i, j \in DOMAIN recs : i # j => recs[i].record_id # recs[j].record_id

FuzzyDone == fz_pc = "done"

\* C7: match returns the position pairs i < j, in lexicographic order, whose two
\* lower-cased joined names are non-empty and within max_edits in the classic
\* Levenshtein distance, each as one candidate with the records' ids, the
\* configured score and the rule's metadata; a record with an empty joined name
\* (and an id of its own) is in no candidate.
C7_FuzzyMatchExact ==
    FuzzyDone =>
        /\ fz_candidates = FuzzyExpected(records, max_edits)
        /\ \A i \in DOMAIN records :
              (/\ LoweredName(records[i]) = <<>>
               /\ \A j \in DOMAIN records :
                     j # i => records[j].record_id # records[i].record_id)
              => records[i].record_id \notin Participants(fz_candidates)

\* three named records: two pairs kept, the third pair two edits apart
C7_Witness ==
    /\ FuzzyDone
    /\ Len(records) = 3
    /\ max_edits = 1
    /\ Len(fz_candidates) = 2
    /\ \A i \in DOMAIN records : LoweredName(records[i]) # <<>>
    /\ \E i \in DOMAIN records :
          JoinedValue(records[i].attributes, "NAME") # LoweredName(records[i])

\* C8: on a batch of pairwise distinct record ids, no two candidates name the
\* same unordered pair of ids, and no candidate pairs an id with itself.
C8_NoMirroredPair ==
    FuzzyDone /\ DistinctIds(records) =>
        /\ \A k, m \in DOMAIN fz_candidates :
              k # m =>
                {fz_candidates[k].left_id, fz_candidates[k].right_id}
                    # {fz_candidates[m].left_id, fz_candidates[m].right_id}
        /\ \A k \in DOMAIN fz_candidates :
              fz_candidates[k].left_id # fz_candidates[k].right_id

\* every pair of three distinct records is a candidate, the ids not in order
C8_Witness ==
    /\ FuzzyDone
    /\ DistinctIds(records)
    /\ Len(fz_candidates) = 3
    /\ records[1].record_id > records[2].record_id

LevDone == lev_pc = Len(LevCalls)

\* C9: _levenshtein is symmetric, is 0 on equal arguments and satisfies the
\* triangle inequality.
C9_LevenshteinMetric ==
    LevDone =>
        /\ lev_d["lm"] = lev_d["ml"]
        /\ lev_d["ll"] = 0
        /\ lev_d["lr"] <= lev_d["lm"] + lev_d["mr"]

\* three different strings for which the triangle inequality is tight
C9_Witness ==
    /\ LevDone
    /\ lev_left # lev_mid /\ lev_mid # lev_right /\ lev_left # lev_right
    /\ lev_d["lr"] = lev_d["lm"] + lev_d["mr"]
    /\ lev_d["lr"] = 2

\* _levenshtein returns the classic edit distance (used by C7)
Levenshtein_IsClassic ==
    LevDone =>
        /\ lev_d["lm"] = ClassicLev(lev_left, lev_mid)
        /\ lev_d["ml"] = ClassicLev(lev_mid, lev_left)
        /\ lev_d["lr"] = ClassicLev(lev_left, lev_right)

(***************************************************************************)
(* Properties of BruteForceVectorIndex.                                    *)
(***************************************************************************)
\* the dot product over the components the two vectors share
RECURSIVE DotUpTo(_, _, _)
DotUpTo(a, b, n) == IF n = 0 THEN 0 ELSE a[n] * b[n] + DotUpTo(a, b, n - 1)
DotProduct(a, b) == DotUpTo(a, b, Min2(Len(a), Len(b)))

QueryKept(vecs, t) ==
    {p \in PositionPairs(Len(vecs)) : DotProduct(vecs[p[1]], vecs[p[2]]) >= t}

QueryExpected(ids, vecs, t) ==
    LET kept == LexSorted(QueryKept(vecs, t))
    IN  [k \in DOMAIN kept |->
            [left_id |-> ids[kept[k][1]],
             right_id |-> ids[kept[k][2]],
             score |-> DotProduct(vecs[kept[k][1]], vecs[kept[k][2]]),
             metadata |-> [source |-> "embedding"]]]

IndexDone == ix_pc = "done"

\* C10: after a build with as many ids as vectors, query_similar_pairs(t)
\* returns one candidate for every position pair i < j whose dot product is
\* >= t and no other, in lexicographic order, with the ids of the two positions,
\* the dot product as score and source = embedding as metadata.
C10_QueryExact ==
    IndexDone /\ Len(arg_ids) = Len(arg_vectors) =>
        /\ pairs.status = "ok"
        /\ pairs.pairs = QueryExpected(arg_ids, arg_vectors, min_similarity)

\* three vectors: a pair exactly at the threshold kept, another pair left out
C10_Witness ==
    /\ IndexDone
    /\ Len(arg_ids) = 3 /\ Len(arg_vectors) = 3
    /\ pairs.status = "ok"
    /\ Len(pairs.pairs) = 2
    /\ \E k \in DOMAIN pairs.pairs : pairs.pairs[k].score = min_similarity
    /\ arg_ids[1] > arg_ids[2]


(***************************************************************************)
(* Properties of the index over several queries and several builds.        *)
(***************************************************************************)
\* the (left_id, right_id) pairs of a query result
IdPairs(result) == {<<c.left_id, c.right_id>> : c \in Range(result.pairs)}

\* the query at the lower threshold gave a set that holds the other's
Holds(low, high) ==
    high.status = "ok" => (low.status = "ok" /\ IdPairs(high) \subseteq IdPairs(low))

Requeried == ix_pc = "requeried"

\* C11: on one built index, for thresholds t1 < t2 the set of (left_id,
\* right_id) pairs that query_similar_pairs returns at t1 holds every pair
\* it returns at t2.
C11_ThresholdMonotonic ==
    Requeried =>
        /\ (earlier.min_similarity < min_similarity => Holds(earlier.result, pairs))
        /\ (min_similarity < earlier.min_similarity => Holds(pairs, earlier.result))

\* the same, for an index built with as many ids as vectors
Monotonic_EqualLengths ==
    (Requeried /\ Len(arg_ids) = Len(arg_vectors)) => C11_ThresholdMonotonic

SessionQueried == ix_pc = "queried"

\* C12: after any sequence of builds on one index, a query returns exactly
\* what a fresh index returns after the last build alone, so that every
\* candidate it returns is over the ids of the last build.
C12_LastBuildOnly ==
    SessionQueried =>
        /\ pairs = QuerySimilarPairs(Build(NewIndex, arg_ids, arg_vectors), min_similarity)
        /\ \A c \in Range(pairs.pairs) :
              c.left_id \in Range(arg_ids) /\ c.right_id \in Range(arg_ids)

C12_Witness ==
    /\ SessionQueried
    /\ builds = MaxBuilds
    /\ earlier_ids \cap Range(arg_ids) = {}
    /\ earlier_ids # {}
    /\ pairs.status = "ok"
    /\ pairs.pairs # <<>>

\* C13: a build with a number of ids different from the number of vectors
\* fails at the build call and leaves no usable index: the caller never gets
\* past it to a query.
C13_BuildRejectsMismatch ==
    Len(arg_ids) # Len(arg_vectors) => ix_pc \notin {"query", "done"}

\* C20: every MatchCandidate that query_similar_pairs returns carries a score
\* in [0, 1] (1 stands for 1.0), whatever vectors were built and whatever the
\* threshold.
C20_ScoreInUnitInterval ==
    IndexDone => \A c \in Range(pairs.pairs) : 0 <= c.score /\ c.score <= 1

\* the same, for unit vectors that point the same way or are orthogonal
UnitVectors == {<<1, 0>>, <<0, 1>>}
Score_UnitVectors ==
    (IndexDone /\ Range(arg_vectors) \subseteq UnitVectors) => C20_ScoreInUnitInterval

(***************************************************************************)
(* The order of what cluster() returns.                                    *)
(***************************************************************************)
Ascending(s) == \A k \in 1..(Len(s) - 1) : s[k] < s[k + 1]

\* C19: the list cluster() returns is in ascending order of cluster_id, and
\* the record_ids of each cluster are in ascending order, whatever the order
\* of the candidates.
C19_SortedOutput ==
    Done =>
        /\ Ascending([k \in DOMAIN clusters |-> clusters[k].cluster_id[2]])
        /\ \A k \in DOMAIN clusters : Ascending(clusters[k].record_ids)

C19_Witness ==
    /\ Done
    /\ Len(clusters) = 2
    /\ EmitClusters(groups, score_map) # clusters
    /\ \E k \in DOMAIN groups : groups[k].members # SortedIds(groups[k].members)


(***************************************************************************)
(* Construction of a schema.                                               *)
(***************************************************************************)
HasEmptyColumn(m) == \E tag \in DOMAIN m : \E k \in DOMAIN m[tag] : m[tag][k] = ""

\* C14: from_mapping fails, and produces no schema, whenever some column
\* name of the mapping is the empty string.
C14_EmptyColumnRejected ==
    (sc_pc = "done" /\ HasEmptyColumn(mapping)) => schema.status # "ok"

(***************************************************************************)
(* The frame of FunctionalCleaner.clean.                                   *)
(***************************************************************************)
CleanDone == cl_pc = "done"

\* C15: clean returns a list as long as its input whose i-th record has the
\* record_id of the i-th input record and exactly its attribute keys; only
\* attribute values may differ.
C15_CleanFrame ==
    CleanDone =>
        /\ Len(cl_out) = Len(cl_records)
        /\ \A k \in DOMAIN cl_records :
              /\ cl_out[k].record_id = cl_records[k].record_id
              /\ DOMAIN cl_out[k].attributes = DOMAIN cl_records[k].attributes

\* a tag transform met a column the record lacks and a column holding None,
\* and some value was changed
C15_Witness ==
    /\ CleanDone
    /\ cl_config.schema
    /\ \E k \in DOMAIN cl_records :
          \E t \in DOMAIN cl_config.tag_transforms :
              \E c \in Range(ColumnsFor(cl_config.tag_transforms[t].key)) :
                  c \notin DOMAIN cl_records[k].attributes
    /\ \E k \in DOMAIN cl_records :
          \E t \in DOMAIN cl_config.tag_transforms :
              \E c \in Range(ColumnsFor(cl_config.tag_transforms[t].key)) :
                  /\ c \in DOMAIN cl_records[k].attributes
                  /\ ApplyColumns(cl_config.transforms, cl_records[k].attributes)[c] = None
    /\ \E k \in DOMAIN cl_records : cl_out[k] # cl_records[k]

(***************************************************************************)
(* LocalDedupePipeline.run as a composition.                               *)
(***************************************************************************)
PipeDone == pl_pc = "done"

\* C16: run(records) is cluster applied to the deterministic matcher's
\* candidates followed by the embedding matcher's candidates, both computed
\* on the same cleaned batch, each list in its own order, with nothing
\* dropped, merged or added.
C16_RunIsComposition ==
    PipeDone =>
        LET cleaned == Clean(pl_config.cleaner, pl_records)
            det == FuzzyMatch(cleaned, pl_config.max_edits)
            emb == EmbeddingMatch(cleaned, pl_hash, pl_config.similarity_threshold)
        IN  /\ pl_cleaned = cleaned
            /\ pl_all = det \o emb
            /\ Len(pl_all) = Len(det) + Len(emb)
            /\ pl_clusters = ClusterOf(det \o emb)

\* a pair that both matchers found is handed to cluster twice, on a batch
\* that cleaning changed
C16_Witness ==
    /\ PipeDone
    /\ pl_cleaned # pl_records
    /\ \E a \in DOMAIN pl_det : \E b \in DOMAIN pl_emb :
          /\ pl_det[a].left_id = pl_emb[b].left_id
          /\ pl_det[a].right_id = pl_emb[b].right_id
          /\ pl_all[a] = pl_det[a]
          /\ pl_all[Len(pl_det) + b] = pl_emb[b]
    /\ pl_clusters # <<>>

\* C17: on the batch of the pipeline test, with max_edits = 1 and the hashing
\* embedding at threshold 0.6, run returns a cluster whose members are
\* exactly records 1 and 2, however the tokens fall on the hash dimensions.
C17_ScenarioCluster ==
    PipeDone => \E k \in DOMAIN pl_clusters : Range(pl_clusters[k].record_ids) = {1, 2}

\* the same, when no token of record 3 shares a dimension with a token of
\* record 1 or record 2
Apart(h) ==
    \A a \in TokensOf(SubSeq(ScenarioRecords, 1, 2)) :
        \A b \in TokensOf(SubSeq(ScenarioRecords, 3, 3)) : h[a] # h[b]
Scenario_TokensApart ==
    (PipeDone /\ Apart(pl_hash)) => C17_ScenarioCluster

(***************************************************************************)
(* The canonical-email filter.                                             *)
(***************************************************************************)
EmailDone == em_pc = "done"

\* the canonical key each email of the model has in the program
KeyOf(attrs) ==
    IF attrs.EMAIL = None THEN <<>>
    ELSE IF attrs.EMAIL[1] \in {JaneGmail, JAnePromo} THEN JaneGmail
    ELSE IF attrs.EMAIL[1] = JaneDoePromo THEN 
    <<"j", "a", "n", "e", "d", "o", "e", "@",
      "g", "m", "a", "i", "l", ".", "c", "o", "m">>
    ELSE attrs.EMAIL[1]

KeyOfId(id) == IF id \in DOMAIN em_records THEN KeyOf(em_records[id].attributes) ELSE <<>>

Survives(c) ==
    KeyOfId(c.left_id) = <<>> \/ KeyOfId(c.right_id) = <<>>
        \/ KeyOfId(c.left_id) = KeyOfId(c.right_id)

\* the sublist of the candidates that survive, in their order
RECURSIVE Survivors(_)
Survivors(cands) ==
    IF cands = <<>> THEN <<>>
    ELSE IF Survives(Head(cands)) THEN <<Head(cands)>> \o Survivors(Tail(cands))
    ELSE Survivors(Tail(cands))

\* the two candidates and the four emails of the scenario
InScenario ==
    /\ em_constraint = "canonical"
    /\ em_candidates = <<MatchCandidate(1, 2, 90, "any"), MatchCandidate(3, 4, 90, "any")>>
    /\ em_records[1].attributes.EMAIL = Some(JaneGmail)
    /\ em_records[2].attributes.EMAIL = Some(JaneDoePromo)
    /\ em_records[3].attributes.EMAIL = Some(AtX)
    /\ em_records[4].attributes.EMAIL = Some(AtY)

\* C18: in the scenario the filter keeps the candidate of jane@gmail.com and
\* jane.doe+promo@gmail.com and drops the candidate of a@x.com and b@y.com:
\* the result is the list of the first candidate alone.
C18_FirstCandidateSurvives ==
    (EmailDone /\ InScenario) => em_filtered = <<em_candidates[1]>>

\* C18, amended: with constraint = canonical the filter returns, in their
\* order, the candidates whose endpoints have the same canonical key or a
\* missing one; jane@gmail.com and jane.doe+promo@gmail.com have the keys
\* jane@gmail.com and janedoe@gmail.com, so in the scenario both candidates
\* are dropped.
C18_CanonicalFilter ==
    EmailDone =>
        /\ em_constraint = "canonical" => em_filtered = Survivors(em_candidates)
        /\ InScenario => em_filtered = <<>>

C18_Witness == EmailDone /\ InScenario /\ em_filtered = <<>>

\* a candidate of two spellings of one mailbox is kept
Canonical_SameMailboxKept ==
    (/\ EmailDone
     /\ em_constraint = "canonical"
     /\ em_candidates = <<MatchCandidate(1, 2, 90, "any")>>
     /\ em_records[1].attributes.EMAIL = Some(JaneGmail)
     /\ em_records[2].attributes.EMAIL = Some(JAnePromo))
        => em_filtered = em_candidates

(***************************************************************************)
(* Properties of _UnionFind.                                               *)
(***************************************************************************)
\* the item reached from x by following parent pointers, at most fuel of them
RECURSIVE Walk(_, _, _)
Walk(parent, x, fuel) ==
    IF fuel = 0 \/ x \notin DOMAIN parent
    THEN x
    ELSE IF parent[x] = x THEN x ELSE Walk(parent, parent[x], fuel - 1)

Size(u) == Cardinality(DOMAIN u.parent)

\* the representative of x: the root above it, and x itself while it has no entry
Rep(u, x) == Walk(u.parent, x, Size(u))

Reps(u, S) == [x \in S |-> Rep(u, x)]

SetOf(u, x) == {y \in DOMAIN u.parent : Rep(u, y) = Rep(u, x)}

Known(u, call) == (DOMAIN u.parent) \cup ({call.left, call.right} \ {0})

\* find(item), called where the caller stands, returns
FindReturns(u, item) == Frames(u, item) <= MaxFrames

\* what the claim says of a union: the right root is under the left root, every
\* item of the two sets has the previous left root as its representative, and
\* every other item the representative it had
UnionFrame(before_uf, call, after_uf) ==
    LET before == Reps(before_uf, Known(before_uf, call))
        after == Reps(after_uf, DOMAIN after_uf.parent)
        root_left == before[call.left]
        root_right == before[call.right]
    IN  /\ DOMAIN after = DOMAIN before
        /\ after_uf.parent[root_right] = root_left
        /\ after_uf.parent[root_left] = root_left
        /\ \A x \in DOMAIN after :
            after[x] = IF before[x] \in {root_left, root_right}
                       THEN root_left
                       ELSE before[x]

\* C21: union(left, right) attaches the right root under the left root.  When
\* find(left) and find(right) differ before the call, afterwards every item of
\* both sets has the previous root of left as its representative and every
\* other item keeps its representative; when they are equal no representative
\* changes.  The roots after a call are thereby fixed by the roots before it
\* and the arguments, so the same calls in the same order give the same roots.
C21_UnionAttachesRightUnderLeft ==
    (/\ dsu_call.op = "union"
     /\ FindReturns(dsu_before, dsu_call.left)
     /\ FindReturns(dsu_before, dsu_call.right))
        => UnionFrame(dsu_before, dsu_call, dsu)

\* every union that returned has done what C21 says
Union_FrameWhenReturned ==
    dsu_call.op = "union" /\ dsu_result.status = "ok"
        => UnionFrame(dsu_before, dsu_call, dsu)

\* a union that returned: two sets with different roots, the right argument
\* below its root, and a third set beside them
Union_ReturnedWitness ==
    /\ dsu_call.op = "union"
    /\ dsu_result.status = "ok"
    /\ Rep(dsu_before, dsu_call.left) # Rep(dsu_before, dsu_call.right)
    /\ Rep(dsu_before, dsu_call.right) # dsu_call.right
    /\ \E x \in DOMAIN dsu_before.parent :
        Rep(dsu_before, x) \notin {Rep(dsu_before, dsu_call.left),
                                   Rep(dsu_before, dsu_call.right)}

\* a union that raised although a find of either argument would have returned
Union_RaisedWitness ==
    /\ dsu_call.op = "union"
    /\ dsu_result.status = "RecursionError"
    /\ FindReturns(dsu_before, dsu_call.left)
    /\ FindReturns(dsu_before, dsu_call.right)

\* the representatives a list of candidates gives when each candidate moves the
\* set of its right id to the representative of its left id
RECURSIVE RuleReps(_, _)
RuleReps(reps, cands) ==
    IF cands = <<>>
    THEN reps
    ELSE LET c == Head(cands)
             met == [x \in (DOMAIN reps) \cup {c.left_id, c.right_id} |->
                        IF x \in DOMAIN reps THEN reps[x] ELSE x]
         IN  RuleReps([x \in DOMAIN met |->
                          IF met[x] = met[c.right_id] THEN met[c.left_id] ELSE met[x]],
                      Tail(cands))

\* in cluster(), the roots after the union loop, and with them the cluster ids,
\* are those the rule gives for the candidate list
Roots_FollowCandidates ==
    pc \in {"score", "groups", "emit", "done"} /\ candidates # <<>> =>
        LET reps == RuleReps(EmptyDict, candidates)
        IN  /\ DOMAIN uf.parent = DOMAIN reps
            /\ \A x \in DOMAIN reps : Rep(uf, x) = reps[x]
            /\ pc = "done" =>
                \A k \in DOMAIN clusters :
                    clusters[k].cluster_id = ClusterId(reps[clusters[k].record_ids[1]])

\* the parent map is a forest: every parent has an entry, and every walk
\* ends in a self-loop
Forest(u) ==
    /\ Range(u.keys) = DOMAIN u.parent
    /\ \A x \in DOMAIN u.parent : u.parent[x] \in DOMAIN u.parent
    /\ \A x \in DOMAIN u.parent : u.parent[Rep(u, x)] = Rep(u, x)

SamePartition(u, v, S) ==
    LET ru == Reps(u, S)
        rv == Reps(v, S)
    IN  \A x \in S, y \in S : (ru[x] = ru[y]) <=> (rv[x] = rv[y])

\* what the claim says of a find that returned
FindFrame(before_uf, call, result, after_uf) ==
    /\ result.root = Rep(before_uf, call.left)
    /\ result.root \in DOMAIN after_uf.parent
    /\ after_uf.parent[result.root] = result.root
    /\ SamePartition(after_uf, before_uf, Known(before_uf, call))

\* C23: after any sequence of find and union calls the parent map is a
\* forest, and so a find of any item ends, returns the self-loop item above
\* its argument, and leaves unchanged which items share a representative.
C23_FindReturnsRoot ==
    /\ Forest(dsu)
    /\ dsu_call.op = "find" =>
        /\ dsu_result.status = "ok"
        /\ FindFrame(dsu_before, dsu_call, dsu_result, dsu)

\* the parent map is a forest after every call, returned or raised, and a
\* find that returned has done what C23 says
Forest_FindWhenReturned ==
    /\ Forest(dsu)
    /\ dsu_call.op = "find" /\ dsu_result.status = "ok"
        => FindFrame(dsu_before, dsu_call, dsu_result, dsu)
    /\ dsu_call.op = "groups" /\ dsu_result.status = "ok"
        => SamePartition(dsu, dsu_before, DOMAIN dsu_before.parent)

\* a find that returned after compressing a path of two pointers
Find_CompressedWitness ==
    /\ dsu_call.op = "find"
    /\ dsu_result.status = "ok"
    /\ Frames(dsu_before, dsu_call.left) = 3
    /\ dsu.parent[dsu_call.left] = dsu_result.root
    /\ dsu # dsu_before

\* a find that raised on a forest
Find_RaisedWitness ==
    /\ dsu_call.op = "find"
    /\ dsu_result.status = "RecursionError"
    /\ Forest(dsu_before)

(***************************************************************************)
(* Two match calls on one matcher.                                         *)
(***************************************************************************)
MatchDone(c) == mt_pc[c] = "done"

IdsOf(result) ==
    {result[k].left_id : k \in DOMAIN result} \cup {result[k].right_id : k \in DOMAIN result}

\* C22: match is free of side effects on shared state: whatever the order of
\* the steps of two calls on one matcher, each call returns exactly the
\* candidates of its own batch, and no record id of the other batch.
C22_MatchOwnBatchOnly ==
    \A c \in Callers :
        MatchDone(c) =>
            /\ mt_result[c] = EmbeddingMatch(mt_batch[c], mt_hash, similarity_threshold)
            /\ IdsOf(mt_result[c]) \subseteq Range(RecordIdsOf(mt_batch[c]))

\* a call that returned a candidate of the other batch
Match_OtherBatchWitness ==
    \E c \in Callers :
        /\ MatchDone(c)
        /\ IdsOf(mt_result[c]) # {}
        /\ IdsOf(mt_result[c]) \cap Range(RecordIdsOf(mt_batch[c])) = {}

\* the call that queries while the index holds what it built itself returns
\* the candidates of its own batch
Match_OwnIndexOwnBatch ==
    \A c \in Callers :
        (/\ MatchDone(c)
         /\ mt_index = EmbeddingBuild(NewIndex, mt_batch[c], mt_hash)
         /\ \A d \in Callers \ {c} : mt_pc[d] \in {"embed", "build_ids"})
            => mt_result[c] = EmbeddingMatch(mt_batch[c], mt_hash, similarity_threshold)

=============================================================================
